---- MODULE Spec2Model ----
(***************************************************************************)
(* Model of the IDM configuration entity bulk operations of frodo-lib      *)
(* (src/src/ops/IdmConfigOps.ts on top of src/src/api/IdmConfigApi.ts):    *)
(* importConfigEntities, exportConfigEntities, deleteConfigEntities and    *)
(* deleteConfigEntitiesByType, run against a remote configuration store.   *)
(*                                                                         *)
(* Every `await` of a store call is split in two steps: the step that      *)
(* issues the call and the step in which the call settles (with success or *)
(* with one of the errors the store can answer).  One behaviour runs one   *)
(* operation from start to completion.                                     *)
(***************************************************************************)
EXTENDS Integers, Sequences, FiniteSets, TLC

VARIABLES
  store,           \* the remote store: id -> body, 0 when the id does not exist
  deploymentType,  \* state.getDeploymentType()
  op,              \* the operation that is running
  pc,              \* its position
  importData,      \* importData.idm in Object.keys order: sequence of entities
  options,         \* import options
  type,            \* argument of deleteConfigEntitiesByType
  configurations,  \* the working set returned by the listing call
  i,               \* index of the for-of loop of the sequential batches
  response,        \* importConfigEntities: response
  result,          \* deleteConfigEntities(ByType): result
  results,         \* exportConfigEntities: settled value of each entityPromise
  errors,          \* the local errors list of the batch
  inflight,        \* store calls issued and not yet settled
  calls,           \* every store call issued so far, in issue order
  trace,           \* what happened to each item, in completion order
  outcome,         \* "pending", "returned" or "threw"
  thrown,          \* the error the operation threw
  retval,          \* the list an import / delete operation returned
  exportData,      \* the bundle exportConfigEntities returned
  log,             \* ids for which an error-level message was printed
  summary,         \* the count of the terminal progress message
  entity,          \* entityId and entityData of a single-entity operation
  previous         \* how the call made before the running one ended

vars == <<store, deploymentType, op, pc, importData, options, type,
          configurations, i, response, result, results, errors, inflight,
          calls, trace, outcome, thrown, retval, exportData, log, summary,
          entity, previous>>

----------------------------------------------------------------------------
(* Bounds *)

\* longest import bundle, and longest stub list, that is enumerated
MaxLen == 2

\* longest id, in characters, of the stub lists given to readConfigEntityTypes
MaxIdLen == 3

----------------------------------------------------------------------------
(* Values *)

\* An entity id is its '/'-separated path, kept as the tuple of its segments.
OnboardingId == <<"emailTemplate", "frOnboarding">>
WelcomeId == <<"emailTemplate", "welcome">>
ScriptId == <<"script">>

\* the ids of the model, in the order the store lists them
IdOrder == <<OnboardingId, WelcomeId, ScriptId>>

Ids == {IdOrder[k] : k \in 1..Len(IdOrder)}

\* entity bodies; a body of InvalidHookBodies carries an invalid script hook
Bodies == {1, 2}

InvalidHookBodies == {2}

\* the bodies the store holds before the operation
StoredBodies == {1}

Absent == 0

NoId == <<>>

Entity(id, body) == [_id |-> id, body |-> body]

\* a stub points to an entity and carries no body
Stub(id) == Entity(id, 0)

\* the value of a promise that resolved to undefined / has not settled
Undefined == Entity(NoId, 0)

Pending == Entity(NoId, -1)

DeploymentTypes == {"cloud", "forgeops"}

CLOUD_DEPLOYMENT_TYPE_KEY == "cloud"

AIC_PROTECTED_ENTITIES ==
  { <<"emailTemplate", "frEmailUpdated">>,
    <<"emailTemplate", "frForgotUsername">>,
    <<"emailTemplate", "frOnboarding">>,
    <<"emailTemplate", "frPasswordUpdated">>,
    <<"emailTemplate", "frProfileUpdated">>,
    <<"emailTemplate", "frResetPassword">>,
    <<"emailTemplate", "frUsernameUpdated">> }

IDM_UNAVAILABLE_ENTITIES ==
  { <<"script">>, <<"notificationFactory">>, <<"apiVersion">>, <<"metrics">>,
    <<"repo.init">>, <<"endpoint", "validateQueryFilter">>,
    <<"endpoint", "oauthproxy">>, <<"external.rest">>, <<"scheduler">>,
    <<"org.apache.felix.fileinstall", "openidm">>, <<"cluster">>,
    <<"endpoint", "mappingDetails">>, <<"fieldPolicy", "teammember">> }

----------------------------------------------------------------------------
(* Errors *)

\* An error message: its fixed text and the entity id interpolated in it
Msg(text, id) == <<text, id>>

\* The error of a failed HTTP call.  httpStatus 0 and empty strings stand
\* for a call that got no HTTP response (transport failure).
AxiosError(status, code, message, reason) ==
  [name |-> "AxiosError", message |-> Msg("Request failed", NoId),
   httpStatus |-> status, httpCode |-> code, httpMessage |-> message,
   httpErrorReason |-> reason, originalErrors |-> <<>>]

NoError ==
  [name |-> "", message |-> Msg("", NoId), httpStatus |-> 0, httpCode |-> "",
   httpMessage |-> "", httpErrorReason |-> "", originalErrors |-> <<>>]

\* new FrodoError(message): no cause
FrodoErrorPlain(message) ==
  [name |-> "FrodoError", message |-> message, httpStatus |-> 0,
   httpCode |-> "", httpMessage |-> "", httpErrorReason |-> "",
   originalErrors |-> <<>>]

\* new FrodoError(message, error): one cause, whose HTTP fields it carries
FrodoError(message, error) ==
  [name |-> "FrodoError", message |-> message,
   httpStatus |-> error.httpStatus, httpCode |-> error.httpCode,
   httpMessage |-> error.httpMessage,
   httpErrorReason |-> error.httpErrorReason,
   originalErrors |-> <<error>>]

\* new FrodoError(message, errors): a list of causes
FrodoErrorList(message, errs) ==
  [name |-> "FrodoError", message |-> message, httpStatus |-> 0,
   httpCode |-> "", httpMessage |-> "", httpErrorReason |-> "",
   originalErrors |-> errs]

E403BadRequest == AxiosError(403, "ERR_BAD_REQUEST", "Access denied", "Forbidden")
E403OtherCode == AxiosError(403, "ERR_BAD_RESPONSE", "Access denied", "Forbidden")
E400BadRequest == AxiosError(400, "ERR_BAD_REQUEST", "Bad request", "Bad Request")
E500 == AxiosError(500, "ERR_BAD_RESPONSE", "Internal error", "Internal Server Error")
ENetwork == AxiosError(0, "ERR_NETWORK", "", "")
E403Cloud ==
  AxiosError(403, "ERR_BAD_REQUEST",
             "This operation is not available in ForgeRock Identity Cloud.",
             "Forbidden")
E404NotFound == AxiosError(404, "ERR_BAD_REQUEST", "Not found", "Not Found")
E404OtherReason == AxiosError(404, "ERR_BAD_REQUEST", "Not found", "not found")
E404FileInstall ==
  AxiosError(404, "ERR_BAD_REQUEST",
             "No configuration exists for id org.apache.felix.fileinstall/openidm",
             "Not Found")

\* the ways each kind of store call can fail
PutErrors == {E403BadRequest, E403OtherCode, E400BadRequest, ENetwork}
DeleteErrors == {E500, ENetwork}
ListErrors == {E500, ENetwork}
GetErrors == {E403Cloud, E403BadRequest, E404NotFound, E404OtherReason,
              E404FileInstall, ENetwork}

----------------------------------------------------------------------------
(* Helpers *)

RECURSIVE SeqsOver(_, _)
\* the sequences of at most n distinct elements of S
SeqsOver(S, n) ==
  IF n = 0 THEN {<<>>}
  ELSE LET shorter == SeqsOver(S, n - 1)
       IN shorter \cup
          {Append(s, x) : s \in {t \in shorter : Len(t) = n - 1},
                          x \in S}

Range(s) == {s[k] : k \in 1..Len(s)}

NoDup(s) == \A a, b \in 1..Len(s) : s[a] = s[b] => a = b

\* the import bundles: at most MaxLen entities with distinct ids
Bundles ==
  {b \in SeqsOver({Entity(id, body) : id \in Ids, body \in Bodies}, MaxLen) :
     NoDup([k \in 1..Len(b) |-> b[k]._id])}

Call(kind, id, idx) == [kind |-> kind, id |-> id, idx |-> idx]

Item(id, res, err) == [id |-> id, res |-> res, err |-> err]

NoBundle == [meta |-> FALSE, idm |-> <<>>]

\* the record kept of a completed call: the operation, the store it left,
\* what happened to its items and how it ended
Completed(o, st, tr, out, err) ==
  [op |-> o, store |-> st, trace |-> tr, outcome |-> out, thrown |-> err]

\* no call was made before the running one
NoCall(st) == Completed("none", st, <<>>, "pending", NoError)

\* the entities the store holds, in listing order
Listing(st) ==
  LET present == SelectSeq(IdOrder, LAMBDA id : st[id] # Absent)
  IN [k \in 1..Len(present) |-> Entity(present[k], st[present[k]])]

----------------------------------------------------------------------------
(* The store: src/src/api/IdmConfigApi.ts *)

\* faulty variant: the put is acknowledged but nothing is written
putConfigEntityNoWrite(st, entityId, entityData) == st

\* PUT /openidm/config/<id>: create or replace, no precondition
putConfigEntity(st, entityId, entityData) ==
  [st EXCEPT ![entityId] = entityData.body]

\* DELETE /openidm/config/<id>
deleteConfigEntity(st, entityId) == [st EXCEPT ![entityId] = Absent]

\* faulty variant: the entity is returned without its body
getConfigEntityNoBody(st, entityId) == Stub(entityId)

\* GET /openidm/config/<id>
getConfigEntity(st, entityId) == Entity(entityId, st[entityId])

\* GET /openidm/config?_queryFilter=true
getConfigEntities(st) == Listing(st)

\* GET /openidm/config: the stubs of the entities, which carry no body
getConfigStubs(st) ==
  [k \in 1..Len(Listing(st)) |-> Stub(Listing(st)[k]._id)]

\* GET /openidm/config?_queryFilter=_id sw '<type>'
getConfigEntitiesByType(st, t) ==
  SelectSeq(Listing(st), LAMBDA e : e._id[1] = t)

----------------------------------------------------------------------------
(* Initial state *)

Init ==
  /\ store \in [Ids -> {Absent} \cup StoredBodies]
  /\ deploymentType \in DeploymentTypes
  /\ op = "none"
  /\ pc = "idle"
  /\ importData = <<>>
  /\ options = [validate |-> FALSE]
  /\ type = ""
  /\ configurations = <<>>
  /\ i = 1
  /\ response = <<>>
  /\ result = <<>>
  /\ results = <<>>
  /\ errors = <<>>
  /\ inflight = {}
  /\ calls = <<>>
  /\ trace = <<>>
  /\ outcome = "pending"
  /\ thrown = NoError
  /\ retval = <<>>
  /\ exportData = NoBundle
  /\ log = <<>>
  /\ summary = -1
  /\ entity = Undefined
  /\ previous = NoCall(store)

----------------------------------------------------------------------------
(* importConfigEntities *)

\* the script hooks of an entity body are valid
areScriptHooksValid(jsonData) == jsonData.body \notin InvalidHookBodies

\* faulty variant: the validate option is ignored
FailsValidationOff(opts, entityData) == FALSE

\* faulty variant: the entities are validated whatever the option says
FailsValidationAlways(opts, entityData) == ~areScriptHooksValid(entityData)

\* the guard of the local validation error (lines 562-565)
FailsValidation(opts, entityData) ==
  opts.validate /\ ~areScriptHooksValid(entityData)

\* faulty variant: no failure is ever suppressed
IsSuppressedNever(dt, entityId, error) == FALSE

\* faulty variant: the error code is not looked at
IsSuppressedNoCode(dt, entityId, error) ==
  /\ dt = CLOUD_DEPLOYMENT_TYPE_KEY
  /\ entityId \in AIC_PROTECTED_ENTITIES
  /\ error.httpStatus = 403

\* the negated guard of `throw error` in the inner catch (lines 578-586)
IsSuppressed(dt, entityId, error) ==
  /\ dt = CLOUD_DEPLOYMENT_TYPE_KEY
  /\ entityId \in AIC_PROTECTED_ENTITIES
  /\ error.httpStatus = 403
  /\ error.httpCode = "ERR_BAD_REQUEST"

\* the guard of the final throw: errors.length > 0
HasErrors(errs) == Len(errs) > 0

\* the error updateConfigEntity throws when the put fails with e
UpdateError(entityId, e) ==
  FrodoError(Msg("Error updating config entity", entityId), e)

\* the local validation error of an entity
InvalidHookError(entityId) ==
  FrodoErrorPlain(Msg("Invalid script hook in the config object", entityId))

\* the options argument of a call: left out, or given with either value
OptionsOmitted == [omitted |-> TRUE]

OptionArgs == {OptionsOmitted} \cup {[validate |-> v] : v \in BOOLEAN}

\* the parameter default `options = { validate: false }`
OptionsParameter(arg) ==
  IF arg = OptionsOmitted THEN [validate |-> FALSE] ELSE arg

StartImport ==
  /\ op = "none"
  /\ \E b \in Bundles, arg \in OptionArgs :
       /\ importData' = b
       /\ options' = OptionsParameter(arg)
  /\ op' = "import"
  /\ pc' = "loop"
  /\ i' = 1
  /\ response' = <<>>
  /\ errors' = <<>>
  /\ UNCHANGED <<previous, entity, store, deploymentType, type, configurations, result, results,
                 inflight, calls, trace, outcome, thrown, retval, exportData,
                 log, summary>>

\* an iteration whose entity fails the script hook validation
ImportInvalid ==
  /\ op = "import" /\ pc = "loop" /\ i <= Len(importData)
  /\ FailsValidation(options, importData[i])
  /\ errors' = Append(errors, InvalidHookError(importData[i]._id))
  /\ trace' = Append(trace, Item(importData[i]._id, "invalid", NoError))
  /\ i' = i + 1
  /\ UNCHANGED <<previous, entity, store, deploymentType, op, pc, importData, options, type,
                 configurations, response, result, results, inflight, calls,
                 outcome, thrown, retval, exportData, log, summary>>

\* faulty variant: the put is issued without being awaited
ImportPutNoAwait ==
  /\ op = "import" /\ pc = "loop" /\ i <= Len(importData)
  /\ ~FailsValidation(options, importData[i])
  /\ inflight' = inflight \cup {Call("put", importData[i]._id, i)}
  /\ calls' = Append(calls, Call("put", importData[i]._id, i))
  /\ i' = i + 1
  /\ UNCHANGED <<previous, entity, store, deploymentType, op, pc, importData, options, type,
                 configurations, response, result, results, errors, trace,
                 outcome, thrown, retval, exportData, log, summary>>

\* faulty variant: the entity is read before it is put
ImportPutReadsFirst ==
  /\ op = "import" /\ pc = "loop" /\ i <= Len(importData)
  /\ ~FailsValidation(options, importData[i])
  /\ inflight' = inflight \cup {Call("put", importData[i]._id, i)}
  /\ calls' = calls \o <<Call("get", importData[i]._id, i),
                         Call("put", importData[i]._id, i)>>
  /\ pc' = "await"
  /\ UNCHANGED <<previous, entity, store, deploymentType, op, importData, options, type,
                 configurations, i, response, result, results, errors, trace,
                 outcome, thrown, retval, exportData, log, summary>>

\* an iteration that reaches `await updateConfigEntity(...)`: the put is issued
ImportPut ==
  /\ op = "import" /\ pc = "loop" /\ i <= Len(importData)
  /\ ~FailsValidation(options, importData[i])
  /\ inflight' = inflight \cup {Call("put", importData[i]._id, i)}
  /\ calls' = Append(calls, Call("put", importData[i]._id, i))
  /\ pc' = "await"
  /\ UNCHANGED <<previous, entity, store, deploymentType, op, importData, options, type,
                 configurations, i, response, result, results, errors, trace,
                 outcome, thrown, retval, exportData, log, summary>>

\* faulty variant: the put is accepted only for an id the store does not hold
ImportPutOkCreateOnly ==
  /\ op = "import" /\ pc = "await"
  /\ Call("put", importData[i]._id, i) \in inflight
  /\ store[importData[i]._id] = Absent
  /\ store' = putConfigEntity(store, importData[i]._id, importData[i])
  /\ response' = Append(response, getConfigEntity(store', importData[i]._id))
  /\ inflight' = inflight \ {Call("put", importData[i]._id, i)}
  /\ trace' = Append(trace, Item(importData[i]._id, "ok", NoError))
  /\ i' = i + 1
  /\ pc' = "loop"
  /\ UNCHANGED <<previous, entity, deploymentType, op, importData, options, type, configurations,
                 result, results, errors, calls, outcome, thrown, retval,
                 exportData, log, summary>>

\* faulty variant: the put is accepted only while the entity is as it was
\* when the import began
ImportPutOkIfUnchanged ==
  /\ op = "import" /\ pc = "await"
  /\ Call("put", importData[i]._id, i) \in inflight
  /\ store[importData[i]._id] = previous.store[importData[i]._id]
  /\ store' = putConfigEntity(store, importData[i]._id, importData[i])
  /\ response' = Append(response, getConfigEntity(store', importData[i]._id))
  /\ inflight' = inflight \ {Call("put", importData[i]._id, i)}
  /\ trace' = Append(trace, Item(importData[i]._id, "ok", NoError))
  /\ i' = i + 1
  /\ pc' = "loop"
  /\ UNCHANGED <<previous, entity, deploymentType, op, importData, options, type, configurations,
                 result, results, errors, calls, outcome, thrown, retval,
                 exportData, log, summary>>

\* the put succeeds: the result is pushed to response
ImportPutOk ==
  /\ op = "import" /\ pc = "await"
  /\ Call("put", importData[i]._id, i) \in inflight
  /\ store' = putConfigEntity(store, importData[i]._id, importData[i])
  /\ response' = Append(response, getConfigEntity(store', importData[i]._id))
  /\ inflight' = inflight \ {Call("put", importData[i]._id, i)}
  /\ trace' = Append(trace, Item(importData[i]._id, "ok", NoError))
  /\ i' = i + 1
  /\ pc' = "loop"
  /\ UNCHANGED <<previous, entity, deploymentType, op, importData, options, type, configurations,
                 result, results, errors, calls, outcome, thrown, retval,
                 exportData, log, summary>>

\* faulty variant: a recorded failure ends the loop
ImportPutFailFast(e) ==
  /\ op = "import" /\ pc = "await"
  /\ Call("put", importData[i]._id, i) \in inflight
  /\ inflight' = inflight \ {Call("put", importData[i]._id, i)}
  /\ errors' =
       IF IsSuppressed(deploymentType, importData[i]._id,
                       UpdateError(importData[i]._id, e))
       THEN errors
       ELSE Append(errors, UpdateError(importData[i]._id, e))
  /\ trace' = Append(trace, Item(importData[i]._id, "fail", e))
  /\ i' = IF errors' # errors THEN Len(importData) + 1 ELSE i + 1
  /\ pc' = "loop"
  /\ UNCHANGED <<previous, entity, store, deploymentType, op, importData, options, type,
                 configurations, response, result, results, calls, outcome,
                 thrown, retval, exportData, log, summary>>

\* faulty variant: a put that got no HTTP response ends the import at once
ImportPutFailTransportFatal(e) ==
  /\ op = "import" /\ pc = "await"
  /\ Call("put", importData[i]._id, i) \in inflight
  /\ inflight' = inflight \ {Call("put", importData[i]._id, i)}
  /\ trace' = Append(trace, Item(importData[i]._id, "fail", e))
  /\ IF e.httpStatus = 0
     THEN /\ outcome' = "threw"
          /\ thrown' = UpdateError(importData[i]._id, e)
          /\ pc' = "done"
          /\ UNCHANGED <<errors, i>>
     ELSE /\ errors' =
               IF IsSuppressed(deploymentType, importData[i]._id,
                               UpdateError(importData[i]._id, e))
               THEN errors
               ELSE Append(errors, UpdateError(importData[i]._id, e))
          /\ i' = i + 1
          /\ pc' = "loop"
          /\ UNCHANGED <<outcome, thrown>>
  /\ UNCHANGED <<previous, entity, store, deploymentType, op, importData,
                 options, type, configurations, response, result, results,
                 calls, retval, exportData, log, summary>>

\* faulty variant: a suppressed failure is also counted as a result
ImportPutFailSuppressedAsResult(e) ==
  /\ op = "import" /\ pc = "await"
  /\ Call("put", importData[i]._id, i) \in inflight
  /\ inflight' = inflight \ {Call("put", importData[i]._id, i)}
  /\ errors' =
       IF IsSuppressed(deploymentType, importData[i]._id,
                       UpdateError(importData[i]._id, e))
       THEN errors
       ELSE Append(errors, UpdateError(importData[i]._id, e))
  /\ response' =
       IF IsSuppressed(deploymentType, importData[i]._id,
                       UpdateError(importData[i]._id, e))
       THEN Append(response, importData[i])
       ELSE response
  /\ trace' = Append(trace, Item(importData[i]._id, "fail", e))
  /\ i' = i + 1
  /\ pc' = "loop"
  /\ UNCHANGED <<previous, entity, store, deploymentType, op, importData, options, type,
                 configurations, result, results, calls, outcome,
                 thrown, retval, exportData, log, summary>>

\* faulty variant: a failed put is issued again
ImportPutFailRetry(e) ==
  /\ op = "import" /\ pc = "await"
  /\ Call("put", importData[i]._id, i) \in inflight
  /\ inflight' = inflight \ {Call("put", importData[i]._id, i)}
  /\ pc' = "loop"
  /\ UNCHANGED <<previous, entity, store, deploymentType, op, importData, options, type,
                 configurations, i, response, result, results, errors, calls,
                 trace, outcome, thrown, retval, exportData, log, summary>>

\* the put fails with e: suppressed, or rethrown and pushed to errors
ImportPutFail(e) ==
  /\ op = "import" /\ pc = "await"
  /\ Call("put", importData[i]._id, i) \in inflight
  /\ inflight' = inflight \ {Call("put", importData[i]._id, i)}
  /\ errors' =
       IF IsSuppressed(deploymentType, importData[i]._id,
                       UpdateError(importData[i]._id, e))
       THEN errors
       ELSE Append(errors, UpdateError(importData[i]._id, e))
  /\ trace' = Append(trace, Item(importData[i]._id, "fail", e))
  /\ i' = i + 1
  /\ pc' = "loop"
  /\ UNCHANGED <<previous, entity, store, deploymentType, op, importData, options, type,
                 configurations, response, result, results, calls, outcome,
                 thrown, retval, exportData, log, summary>>

\* after the loop: throw the aggregate error or return response
ImportFinish ==
  /\ op = "import" /\ pc = "loop" /\ i > Len(importData)
  /\ IF HasErrors(errors)
     THEN /\ outcome' = "threw"
          /\ thrown' = FrodoErrorList(Msg("Error importing config entities", NoId), errors)
          /\ retval' = retval
     ELSE /\ outcome' = "returned"
          /\ retval' = response
          /\ thrown' = thrown
  /\ pc' = "done"
  /\ UNCHANGED <<previous, entity, store, deploymentType, op, importData, options, type,
                 configurations, i, response, result, results, errors,
                 inflight, calls, trace, exportData, log, summary>>

Import ==
  \/ StartImport
  \/ ImportInvalid
  \/ ImportPut
  \/ ImportPutOk
  \/ \E e \in PutErrors : ImportPutFail(e)
  \/ ImportFinish

----------------------------------------------------------------------------
(* deleteConfigEntities *)

\* the error readConfigEntityStubs throws when the listing fails with e
StubsError(e) == FrodoError(Msg("Error reading config entity stubs", NoId), e)

StartDeleteAll ==
  /\ op = "none"
  /\ op' = "deleteAll"
  /\ pc' = "list"
  /\ result' = <<>>
  /\ errors' = <<>>
  /\ inflight' = inflight \cup {Call("listStubs", NoId, 0)}
  /\ calls' = Append(calls, Call("listStubs", NoId, 0))
  /\ UNCHANGED <<previous, entity, store, deploymentType, importData, options, type,
                 configurations, i, response, results, trace, outcome, thrown,
                 retval, exportData, log, summary>>

\* readConfigEntityStubs resolves: the loop starts
DeleteAllListOk ==
  /\ op = "deleteAll" /\ pc = "list"
  /\ inflight' = inflight \ {Call("listStubs", NoId, 0)}
  /\ configurations' = getConfigStubs(store)
  /\ i' = 1
  /\ pc' = "loop"
  /\ UNCHANGED <<previous, entity, store, deploymentType, op, importData, options, type,
                 response, result, results, errors, calls, trace, outcome,
                 thrown, retval, exportData, log, summary>>

\* readConfigEntityStubs rejects: the outer catch pushes the error
DeleteAllListFail(e) ==
  /\ op = "deleteAll" /\ pc = "list"
  /\ inflight' = inflight \ {Call("listStubs", NoId, 0)}
  /\ errors' = Append(errors, StubsError(e))
  /\ trace' = Append(trace, Item(NoId, "listfail", e))
  /\ pc' = "after"
  /\ UNCHANGED <<previous, entity, store, deploymentType, op, importData, options, type,
                 configurations, i, response, result, results, calls, outcome,
                 thrown, retval, exportData, log, summary>>

\* an iteration: the delete of stub i is issued and awaited
DeleteAllIssue ==
  /\ op = "deleteAll" /\ pc = "loop" /\ i <= Len(configurations)
  /\ inflight' = inflight \cup {Call("delete", configurations[i]._id, i)}
  /\ calls' = Append(calls, Call("delete", configurations[i]._id, i))
  /\ pc' = "await"
  /\ UNCHANGED <<previous, entity, store, deploymentType, op, importData, options, type,
                 configurations, i, response, result, results, errors, trace,
                 outcome, thrown, retval, exportData, log, summary>>

\* faulty variant: the delete removes whatever the store holds by then
DeleteAllOkSweeping ==
  /\ op = "deleteAll" /\ pc = "await"
  /\ Call("delete", configurations[i]._id, i) \in inflight
  /\ store[configurations[i]._id] # Absent
  /\ inflight' = inflight \ {Call("delete", configurations[i]._id, i)}
  /\ result' = Append(result, getConfigEntity(store, configurations[i]._id))
  /\ store' = [id \in Ids |-> Absent]
  /\ trace' = Append(trace, Item(configurations[i]._id, "ok", NoError))
  /\ i' = i + 1
  /\ pc' = "loop"
  /\ UNCHANGED <<previous, entity, deploymentType, op, importData, options, type, configurations,
                 response, results, errors, calls, outcome, thrown, retval,
                 exportData, log, summary>>

\* the delete of stub i succeeds: the deleted entity, which the store still
\* held, is pushed to result
DeleteAllOk ==
  /\ op = "deleteAll" /\ pc = "await"
  /\ Call("delete", configurations[i]._id, i) \in inflight
  /\ store[configurations[i]._id] # Absent
  /\ inflight' = inflight \ {Call("delete", configurations[i]._id, i)}
  /\ result' = Append(result, getConfigEntity(store, configurations[i]._id))
  /\ store' = deleteConfigEntity(store, configurations[i]._id)
  /\ trace' = Append(trace, Item(configurations[i]._id, "ok", NoError))
  /\ i' = i + 1
  /\ pc' = "loop"
  /\ UNCHANGED <<previous, entity, deploymentType, op, importData, options, type, configurations,
                 response, results, errors, calls, outcome, thrown, retval,
                 exportData, log, summary>>

\* faulty variant: a failed delete ends the loop
DeleteAllFailFast(e) ==
  /\ op = "deleteAll" /\ pc = "await"
  /\ Call("delete", configurations[i]._id, i) \in inflight
  /\ inflight' = inflight \ {Call("delete", configurations[i]._id, i)}
  /\ errors' = Append(errors, e)
  /\ trace' = Append(trace, Item(configurations[i]._id, "fail", e))
  /\ i' = Len(configurations) + 1
  /\ pc' = "loop"
  /\ UNCHANGED <<previous, entity, store, deploymentType, op, importData, options, type,
                 configurations, response, result, results, calls, outcome,
                 thrown, retval, exportData, log, summary>>

\* the delete of stub i fails with e: the inner catch pushes the error
DeleteAllFail(e) ==
  /\ op = "deleteAll" /\ pc = "await"
  /\ Call("delete", configurations[i]._id, i) \in inflight
  /\ inflight' = inflight \ {Call("delete", configurations[i]._id, i)}
  /\ errors' = Append(errors, e)
  /\ trace' = Append(trace, Item(configurations[i]._id, "fail", e))
  /\ i' = i + 1
  /\ pc' = "loop"
  /\ UNCHANGED <<previous, entity, store, deploymentType, op, importData, options, type,
                 configurations, response, result, results, calls, outcome,
                 thrown, retval, exportData, log, summary>>

\* after the try block: throw the aggregate error or return result
DeleteAllFinish ==
  /\ op = "deleteAll"
  /\ \/ pc = "loop" /\ i > Len(configurations)
     \/ pc = "after"
  /\ IF HasErrors(errors)
     THEN /\ outcome' = "threw"
          /\ thrown' = FrodoErrorList(Msg("Error deleting config entities", NoId), errors)
          /\ retval' = retval
     ELSE /\ outcome' = "returned"
          /\ retval' = result
          /\ thrown' = thrown
  /\ pc' = "done"
  /\ UNCHANGED <<previous, entity, store, deploymentType, op, importData, options, type,
                 configurations, i, response, result, results, errors,
                 inflight, calls, trace, exportData, log, summary>>

DeleteAll ==
  \/ StartDeleteAll
  \/ DeleteAllListOk
  \/ \E e \in ListErrors : DeleteAllListFail(e)
  \/ DeleteAllIssue
  \/ DeleteAllOk
  \/ \E e \in DeleteErrors : DeleteAllFail(e)
  \/ DeleteAllFinish

----------------------------------------------------------------------------
(* deleteConfigEntitiesByType *)

\* the types deleteConfigEntitiesByType is called with
Types == {"emailTemplate", "script", "managed"}

\* the error readConfigEntitiesByType throws when the listing fails with e
ByTypeError(e) == FrodoError(Msg("Error reading config entities by type", NoId), e)

StartDeleteByType ==
  /\ op = "none"
  /\ \E t \in Types : type' = t
  /\ op' = "deleteByType"
  /\ pc' = "list"
  /\ result' = <<>>
  /\ errors' = <<>>
  /\ inflight' = inflight \cup {Call("listByType", NoId, 0)}
  /\ calls' = Append(calls, Call("listByType", NoId, 0))
  /\ UNCHANGED <<previous, entity, store, deploymentType, importData, options, configurations, i,
                 response, results, trace, outcome, thrown, retval, exportData,
                 log, summary>>

\* readConfigEntitiesByType resolves: the loop starts
DeleteByTypeListOk ==
  /\ op = "deleteByType" /\ pc = "list"
  /\ inflight' = inflight \ {Call("listByType", NoId, 0)}
  /\ configurations' = getConfigEntitiesByType(store, type)
  /\ i' = 1
  /\ pc' = "loop"
  /\ UNCHANGED <<previous, entity, store, deploymentType, op, importData, options, type,
                 response, result, results, errors, calls, trace, outcome,
                 thrown, retval, exportData, log, summary>>

\* readConfigEntitiesByType rejects: the outer catch finds errors empty and
\* throws a new error wrapping the cause
DeleteByTypeListFail(e) ==
  /\ op = "deleteByType" /\ pc = "list"
  /\ inflight' = inflight \ {Call("listByType", NoId, 0)}
  /\ trace' = Append(trace, Item(NoId, "listfail", e))
  /\ outcome' = "threw"
  /\ thrown' = IF HasErrors(errors)
                THEN ByTypeError(e)
                ELSE FrodoError(Msg("Error deleting config entities by type", NoId),
                                ByTypeError(e))
  /\ pc' = "done"
  /\ UNCHANGED <<previous, entity, store, deploymentType, op, importData, options, type,
                 configurations, i, response, result, results, errors, calls,
                 retval, exportData, log, summary>>

\* an iteration: the delete of entity i is issued and awaited
DeleteByTypeIssue ==
  /\ op = "deleteByType" /\ pc = "loop" /\ i <= Len(configurations)
  /\ inflight' = inflight \cup {Call("delete", configurations[i]._id, i)}
  /\ calls' = Append(calls, Call("delete", configurations[i]._id, i))
  /\ pc' = "await"
  /\ UNCHANGED <<previous, entity, store, deploymentType, op, importData, options, type,
                 configurations, i, response, result, results, errors, trace,
                 outcome, thrown, retval, exportData, log, summary>>

\* the delete of entity i succeeds: the deleted entity is pushed to result
DeleteByTypeOk ==
  /\ op = "deleteByType" /\ pc = "await"
  /\ Call("delete", configurations[i]._id, i) \in inflight
  /\ store[configurations[i]._id] # Absent
  /\ inflight' = inflight \ {Call("delete", configurations[i]._id, i)}
  /\ result' = Append(result, getConfigEntity(store, configurations[i]._id))
  /\ store' = deleteConfigEntity(store, configurations[i]._id)
  /\ trace' = Append(trace, Item(configurations[i]._id, "ok", NoError))
  /\ i' = i + 1
  /\ pc' = "loop"
  /\ UNCHANGED <<previous, entity, deploymentType, op, importData, options, type, configurations,
                 response, results, errors, calls, outcome, thrown, retval,
                 exportData, log, summary>>

\* faulty variant: a failed delete ends the loop
DeleteByTypeFailFast(e) ==
  /\ op = "deleteByType" /\ pc = "await"
  /\ Call("delete", configurations[i]._id, i) \in inflight
  /\ inflight' = inflight \ {Call("delete", configurations[i]._id, i)}
  /\ errors' = Append(errors, e)
  /\ trace' = Append(trace, Item(configurations[i]._id, "fail", e))
  /\ i' = Len(configurations) + 1
  /\ pc' = "loop"
  /\ UNCHANGED <<previous, entity, store, deploymentType, op, importData, options, type,
                 configurations, response, result, results, calls, outcome,
                 thrown, retval, exportData, log, summary>>

\* the delete of entity i fails with e: the inner catch pushes the error
DeleteByTypeFail(e) ==
  /\ op = "deleteByType" /\ pc = "await"
  /\ Call("delete", configurations[i]._id, i) \in inflight
  /\ inflight' = inflight \ {Call("delete", configurations[i]._id, i)}
  /\ errors' = Append(errors, e)
  /\ trace' = Append(trace, Item(configurations[i]._id, "fail", e))
  /\ i' = i + 1
  /\ pc' = "loop"
  /\ UNCHANGED <<previous, entity, store, deploymentType, op, importData, options, type,
                 configurations, response, result, results, calls, outcome,
                 thrown, retval, exportData, log, summary>>

\* faulty variant: the outer catch wraps the aggregate error it caught
DeleteByTypeFinishRewrap ==
  /\ op = "deleteByType" /\ pc = "loop" /\ i > Len(configurations)
  /\ IF HasErrors(errors)
     THEN /\ outcome' = "threw"
          /\ thrown' = FrodoError(Msg("Error deleting config entities by type", NoId),
                                  FrodoErrorList(Msg("Error deleting config entities by type", NoId),
                                                 errors))
          /\ retval' = retval
     ELSE /\ outcome' = "returned"
          /\ retval' = result
          /\ thrown' = thrown
  /\ pc' = "done"
  /\ UNCHANGED <<previous, entity, store, deploymentType, op, importData, options, type,
                 configurations, i, response, result, results, errors,
                 inflight, calls, trace, exportData, log, summary>>

\* after the loop: the aggregate error is thrown inside the try block and the
\* outer catch, finding errors non-empty, re-throws it unchanged
DeleteByTypeFinish ==
  /\ op = "deleteByType" /\ pc = "loop" /\ i > Len(configurations)
  /\ IF HasErrors(errors)
     THEN /\ outcome' = "threw"
          /\ thrown' = FrodoErrorList(Msg("Error deleting config entities by type", NoId),
                                      errors)
          /\ retval' = retval
     ELSE /\ outcome' = "returned"
          /\ retval' = result
          /\ thrown' = thrown
  /\ pc' = "done"
  /\ UNCHANGED <<previous, entity, store, deploymentType, op, importData, options, type,
                 configurations, i, response, result, results, errors,
                 inflight, calls, trace, exportData, log, summary>>

DeleteByType ==
  \/ StartDeleteByType
  \/ DeleteByTypeListOk
  \/ \E e \in ListErrors : DeleteByTypeListFail(e)
  \/ DeleteByTypeIssue
  \/ DeleteByTypeOk
  \/ \E e \in DeleteErrors : DeleteByTypeFail(e)
  \/ DeleteByTypeFinish

----------------------------------------------------------------------------
(* exportConfigEntities *)

\* the error readConfigEntity throws when the get fails with e
ReadError(entityId, e) ==
  FrodoError(Msg("Error reading config entity", entityId), e)

\* faulty variant: the list of unavailable entities is not consulted
IsLoggedNoAllowList(entityId, error) ==
  /\ ~(/\ error.httpStatus = 403
       /\ error.httpMessage =
            "This operation is not available in ForgeRock Identity Cloud.")
  /\ ~(/\ error.httpStatus = 404
       /\ error.httpMessage =
            "No configuration exists for id org.apache.felix.fileinstall/openidm")

\* faulty variant: every 404 "Not Found" is taken for a known one
IsLoggedBlanket404(entityId, error) ==
  /\ ~(/\ error.httpStatus = 403
       /\ error.httpMessage =
            "This operation is not available in ForgeRock Identity Cloud.")
  /\ ~(/\ error.httpStatus = 404
       /\ error.httpErrorReason = "Not Found")
  /\ ~(/\ error.httpStatus = 404
       /\ error.httpMessage =
            "No configuration exists for id org.apache.felix.fileinstall/openidm")

\* faulty variant: the 403 of the cloud offering is not recognised
IsLoggedNoCloudRule(entityId, error) ==
  /\ ~(/\ entityId \in IDM_UNAVAILABLE_ENTITIES
       /\ error.httpStatus = 404
       /\ error.httpErrorReason = "Not Found")
  /\ ~(/\ error.httpStatus = 404
       /\ error.httpMessage =
            "No configuration exists for id org.apache.felix.fileinstall/openidm")

\* the guard of the two printMessage calls of the catch handler (lines 434-453)
IsLogged(entityId, error) ==
  /\ ~(/\ error.httpStatus = 403
       /\ error.httpMessage =
            "This operation is not available in ForgeRock Identity Cloud.")
  /\ ~(/\ entityId \in IDM_UNAVAILABLE_ENTITIES
       /\ error.httpStatus = 404
       /\ error.httpErrorReason = "Not Found")
  /\ ~(/\ error.httpStatus = 404
       /\ error.httpMessage =
            "No configuration exists for id org.apache.felix.fileinstall/openidm")

RECURSIVE BuildIdmFirstWins(_, _)
\* faulty variant: a key that is already in the bundle is not assigned again
BuildIdmFirstWins(rs, n) ==
  IF n = 0 THEN [x \in {} |-> Undefined]
  ELSE LET idm == BuildIdmFirstWins(rs, n - 1)
       IN IF rs[n] # Undefined /\ rs[n]._id \notin DOMAIN idm
          THEN [x \in DOMAIN idm \cup {rs[n]._id} |->
                  IF x = rs[n]._id THEN rs[n] ELSE idm[x]]
          ELSE idm

RECURSIVE BuildIdm(_, _)
\* the loop of lines 471-475 over the first n results
BuildIdm(rs, n) ==
  IF n = 0 THEN [x \in {} |-> Undefined]
  ELSE LET idm == BuildIdm(rs, n - 1)
       IN IF rs[n] # Undefined
          THEN [x \in DOMAIN idm \cup {rs[n]._id} |->
                  IF x = rs[n]._id THEN rs[n] ELSE idm[x]]
          ELSE idm

\* createConfigEntityExportTemplate with the idm map filled
ExportTemplate(idm) == [meta |-> TRUE, idm |-> idm]

StartExport ==
  /\ op = "none"
  /\ op' = "export"
  /\ pc' = "list"
  /\ inflight' = inflight \cup {Call("list", NoId, 0)}
  /\ calls' = Append(calls, Call("list", NoId, 0))
  /\ UNCHANGED <<previous, entity, store, deploymentType, importData, options, type,
                 configurations, i, response, result, results, errors, trace,
                 outcome, thrown, retval, exportData, log, summary>>

\* readConfigEntities resolves: the loop issues one readConfigEntity per
\* entity without awaiting any of them
ExportListOk ==
  /\ op = "export" /\ pc = "list"
  /\ configurations' = getConfigEntities(store)
  /\ results' = [k \in 1..Len(configurations') |-> Pending]
  /\ inflight' = (inflight \ {Call("list", NoId, 0)}) \cup
                 {Call("get", configurations'[k]._id, k) :
                    k \in 1..Len(configurations')}
  /\ calls' = calls \o [k \in 1..Len(configurations') |->
                          Call("get", configurations'[k]._id, k)]
  /\ pc' = "all"
  /\ UNCHANGED <<previous, entity, store, deploymentType, op, importData, options, type, i,
                 response, result, errors, trace, outcome, thrown, retval,
                 exportData, log, summary>>

\* readConfigEntities rejects: the catch prints the error and the function
\* ends without a return value
ExportListFail(e) ==
  /\ op = "export" /\ pc = "list"
  /\ inflight' = inflight \ {Call("list", NoId, 0)}
  /\ trace' = Append(trace, Item(NoId, "listfail", e))
  /\ log' = Append(log, NoId)
  /\ outcome' = "returned"
  /\ exportData' = NoBundle
  /\ pc' = "done"
  /\ UNCHANGED <<previous, entity, store, deploymentType, op, importData, options, type,
                 configurations, i, response, result, results, errors, calls,
                 thrown, retval, summary>>

\* the get of entity k resolves
ExportGetOk(k) ==
  /\ op = "export" /\ pc = "all"
  /\ k \in 1..Len(configurations)
  /\ Call("get", configurations[k]._id, k) \in inflight
  /\ store[configurations[k]._id] # Absent
  /\ inflight' = inflight \ {Call("get", configurations[k]._id, k)}
  /\ results' = [results EXCEPT ![k] = getConfigEntity(store, configurations[k]._id)]
  /\ trace' = Append(trace, Item(configurations[k]._id, "ok", NoError))
  /\ UNCHANGED <<previous, entity, store, deploymentType, op, pc, importData, options, type,
                 configurations, i, response, result, errors, calls, outcome,
                 thrown, retval, exportData, log, summary>>

\* faulty variant: the rejection is not caught per entity, so Promise.all
\* rejects and the outer catch ends the export
ExportGetFailAbort(k, e) ==
  /\ op = "export" /\ pc = "all"
  /\ k \in 1..Len(configurations)
  /\ Call("get", configurations[k]._id, k) \in inflight
  /\ inflight' = inflight \ {Call("get", configurations[k]._id, k)}
  /\ results' = [results EXCEPT ![k] = Undefined]
  /\ log' = Append(log, configurations[k]._id)
  /\ trace' = Append(trace, Item(configurations[k]._id, "fail", e))
  /\ outcome' = "returned"
  /\ exportData' = NoBundle
  /\ pc' = "done"
  /\ UNCHANGED <<previous, entity, store, deploymentType, op, importData, options, type,
                 configurations, i, response, result, errors, calls, thrown,
                 retval, summary>>

\* the get of entity k rejects with e: the catch handler classifies the
\* error, prints it unless it is a known one, and resolves to undefined
ExportGetFail(k, e) ==
  /\ op = "export" /\ pc = "all"
  /\ k \in 1..Len(configurations)
  /\ Call("get", configurations[k]._id, k) \in inflight
  /\ inflight' = inflight \ {Call("get", configurations[k]._id, k)}
  /\ results' = [results EXCEPT ![k] = Undefined]
  /\ log' = IF IsLogged(configurations[k]._id,
                        ReadError(configurations[k]._id, e))
            THEN Append(log, configurations[k]._id)
            ELSE log
  /\ trace' = Append(trace, Item(configurations[k]._id, "fail", e))
  /\ UNCHANGED <<previous, entity, store, deploymentType, op, pc, importData, options, type,
                 configurations, i, response, result, errors, calls, outcome,
                 thrown, retval, exportData, summary>>

\* faulty variant: the bundle is filled with the entities of the listing
\* whose refetch succeeded instead of the refetched entities
ExportFinishFromListing ==
  /\ op = "export" /\ pc = "all"
  /\ \A k \in 1..Len(configurations) : results[k] # Pending
  /\ exportData' = ExportTemplate(BuildIdm(
                      [k \in 1..Len(results) |->
                         IF results[k] # Undefined THEN configurations[k]
                         ELSE Undefined], Len(results)))
  /\ summary' = Len(configurations)
  /\ outcome' = "returned"
  /\ pc' = "done"
  /\ UNCHANGED <<previous, entity, store, deploymentType, op, importData, options, type,
                 configurations, i, response, result, results, errors,
                 inflight, calls, trace, thrown, retval, log>>

\* faulty variant: the bundle is built as soon as one promise has settled
ExportFinishEarly ==
  /\ op = "export" /\ pc = "all"
  /\ \E k \in 1..Len(configurations) : results[k] # Pending
  /\ exportData' = ExportTemplate(BuildIdm(
                      [k \in 1..Len(results) |->
                         IF results[k] # Pending THEN results[k]
                         ELSE Undefined], Len(results)))
  /\ summary' = Len(configurations)
  /\ outcome' = "returned"
  /\ pc' = "done"
  /\ UNCHANGED <<previous, entity, store, deploymentType, op, importData, options, type,
                 configurations, i, response, result, results, errors,
                 inflight, calls, trace, thrown, retval, log>>

\* faulty variant: an export of no entity gives no bundle
ExportFinishNothingForEmpty ==
  /\ op = "export" /\ pc = "all"
  /\ \A k \in 1..Len(configurations) : results[k] # Pending
  /\ exportData' = IF configurations = <<>> THEN NoBundle
                    ELSE ExportTemplate(BuildIdm(results, Len(results)))
  /\ summary' = Len(configurations)
  /\ outcome' = "returned"
  /\ pc' = "done"
  /\ UNCHANGED <<previous, entity, store, deploymentType, op, importData, options, type,
                 configurations, i, response, result, results, errors,
                 inflight, calls, trace, thrown, retval, log>>

\* Promise.all resolves once every promise has settled: the bundle is built
ExportFinish ==
  /\ op = "export" /\ pc = "all"
  /\ \A k \in 1..Len(configurations) : results[k] # Pending
  /\ exportData' = ExportTemplate(BuildIdm(results, Len(results)))
  /\ summary' = Len(configurations)
  /\ outcome' = "returned"
  /\ pc' = "done"
  /\ UNCHANGED <<previous, entity, store, deploymentType, op, importData, options, type,
                 configurations, i, response, result, results, errors,
                 inflight, calls, trace, thrown, retval, log>>

Export ==
  \/ StartExport
  \/ ExportListOk
  \/ \E e \in ListErrors : ExportListFail(e)
  \/ \E k \in 1..Len(IdOrder) : ExportGetOk(k)
  \/ \E k \in 1..Len(IdOrder), e \in GetErrors : ExportGetFail(k, e)
  \/ ExportFinish

----------------------------------------------------------------------------

Next ==
  \/ Import
  \/ DeleteAll
  \/ DeleteByType
  \/ Export

Spec == Init /\ [][Next]_vars

----------------------------------------------------------------------------
(* Another client of the same store *)

\* the values another client writes: a new body, or none when it deletes
WrittenValues == {Absent} \cup Bodies

\* another client creates, replaces or deletes an entity while an
\* operation is running; it writes each entity at most once
Writer ==
  /\ \/ op = "export" /\ pc \in {"list", "all"}
     \/ op = "create" /\ pc \in {"read", "put"}
     \/ op = "import" /\ pc \in {"loop", "await"}
     \/ op \in {"deleteAll", "deleteByType"} /\ pc \in {"list", "loop", "await"}
  /\ \E id \in Ids, b \in WrittenValues :
       /\ store[id] = previous.store[id]
       /\ store[id] # b
       /\ store' = [store EXCEPT ![id] = b]
  /\ UNCHANGED <<previous, entity, deploymentType, op, pc, importData, options,
                 type, configurations, i, response, result, results, errors,
                 inflight, calls, trace, outcome, thrown, retval, exportData,
                 log, summary>>

\* the export with one kind of refetch failure, the 404 of an entity that
\* is gone, next to the other client
NextW ==
  \/ StartExport
  \/ ExportListOk
  \/ \E e \in ListErrors : ExportListFail(e)
  \/ \E k \in 1..Len(IdOrder) : ExportGetOk(k)
  \/ \E k \in 1..Len(IdOrder) : ExportGetFail(k, E404NotFound)
  \/ ExportFinish
  \/ Writer

\* an export running while another client writes to the store
SpecW == Init /\ [][NextW]_vars

----------------------------------------------------------------------------
(* exportConfigEntities followed by importConfigEntities of its bundle *)

\* the keys of the bundle in insertion order, which is the order Object.keys
\* gives for ids, with their entities
BundleEntities(rs) == SelectSeq(rs, LAMBDA r : r # Undefined)

\* the store holds any body a put can have written, the bodies that do not
\* pass the script hook validation included
InitRT ==
  /\ store \in [Ids -> {Absent} \cup Bodies]
  /\ deploymentType \in DeploymentTypes
  /\ op = "none" /\ pc = "idle"
  /\ importData = <<>> /\ options = [validate |-> FALSE] /\ type = ""
  /\ configurations = <<>> /\ i = 1
  /\ response = <<>> /\ result = <<>> /\ results = <<>> /\ errors = <<>>
  /\ inflight = {} /\ calls = <<>> /\ trace = <<>>
  /\ outcome = "pending" /\ thrown = NoError /\ retval = <<>>
  /\ exportData = NoBundle /\ log = <<>> /\ summary = -1
  /\ entity = Undefined
  /\ previous = NoCall(store)

\* the bundle an export returned is given to importConfigEntities with
\* validate off; the histories start again for the second call
RoundTripImport ==
  /\ op = "export" /\ pc = "done"
  /\ exportData.meta
  /\ importData' = BundleEntities(results)
  /\ options' = [validate |-> FALSE]
  /\ op' = "import"
  /\ pc' = "loop"
  /\ i' = 1
  /\ response' = <<>>
  /\ errors' = <<>>
  /\ calls' = <<>>
  /\ trace' = <<>>
  /\ log' = <<>>
  /\ outcome' = "pending"
  /\ UNCHANGED <<previous, entity, store, deploymentType, type,
                 configurations, result, results, inflight, thrown, retval,
                 exportData, summary>>

NextRT ==
  \/ StartExport
  \/ ExportListOk
  \/ \E e \in ListErrors : ExportListFail(e)
  \/ \E k \in 1..Len(IdOrder) : ExportGetOk(k)
  \/ \E k \in 1..Len(IdOrder) : ExportGetFail(k, E404NotFound)
  \/ ExportFinish
  \/ RoundTripImport
  \/ ImportPut
  \/ ImportPutOk
  \/ \E e \in PutErrors : ImportPutFail(e)
  \/ ImportFinish

\* an export and then the import of the bundle it returned
SpecRT == InitRT /\ [][NextRT]_vars

----------------------------------------------------------------------------
(* importConfigEntities called twice with the same bundle and options *)

\* the first call has ended: it is recorded and importConfigEntities is
\* called again with the same arguments
ImportAgain ==
  /\ op = "import" /\ pc = "done"
  /\ previous.op = "none"
  /\ previous' = Completed("import", store, trace, outcome, thrown)
  /\ pc' = "loop"
  /\ i' = 1
  /\ response' = <<>>
  /\ errors' = <<>>
  /\ calls' = <<>>
  /\ trace' = <<>>
  /\ outcome' = "pending"
  /\ thrown' = NoError
  /\ retval' = <<>>
  /\ UNCHANGED <<entity, store, deploymentType, op, importData, options,
                 type, configurations, result, results, inflight, exportData,
                 log, summary>>

\* the import with one kind of put failure, the 403 that is dropped for a
\* protected id of a cloud deployment and recorded otherwise
NextTwice ==
  \/ StartImport
  \/ ImportInvalid
  \/ ImportPut
  \/ ImportPutOk
  \/ ImportPutFail(E403BadRequest)
  \/ ImportFinish
  \/ ImportAgain

\* two imports of the same bundle, one after the other
SpecTwice == Init /\ [][NextTwice]_vars

----------------------------------------------------------------------------
(* exportConfigEntities over a listing that names an id more than once *)

\* the listings over the entities of the store, repeated entries included
RepeatingListings(st) == SeqsOver(Range(Listing(st)), MaxLen)

\* readConfigEntities resolves with any such listing: the loop issues one
\* readConfigEntity per entry
ExportListOkRepeating ==
  /\ op = "export" /\ pc = "list"
  /\ configurations' \in RepeatingListings(store)
  /\ results' = [k \in 1..Len(configurations') |-> Pending]
  /\ inflight' = (inflight \ {Call("list", NoId, 0)}) \cup
                 {Call("get", configurations'[k]._id, k) :
                    k \in 1..Len(configurations')}
  /\ calls' = calls \o [k \in 1..Len(configurations') |->
                          Call("get", configurations'[k]._id, k)]
  /\ pc' = "all"
  /\ UNCHANGED <<previous, entity, store, deploymentType, op, importData,
                 options, type, i, response, result, errors, trace, outcome,
                 thrown, retval, exportData, log, summary>>

NextRepeating ==
  \/ StartExport
  \/ ExportListOkRepeating
  \/ \E k \in 1..MaxLen : ExportGetOk(k)
  \/ \E k \in 1..MaxLen : ExportGetFail(k, E404NotFound)
  \/ ExportFinish
  \/ Writer

\* an export of a listing with repeated ids while another client writes
SpecRepeating == Init /\ [][NextRepeating]_vars

----------------------------------------------------------------------------
(* importConfigEntities next to another writer *)

\* the import with one kind of put failure, next to the other client
NextIW ==
  \/ StartImport
  \/ ImportInvalid
  \/ ImportPut
  \/ ImportPutOk
  \/ ImportPutFail(E403BadRequest)
  \/ ImportFinish
  \/ Writer

\* an import running while another client writes to the store
SpecIW == Init /\ [][NextIW]_vars

----------------------------------------------------------------------------
(* createConfigEntity *)

\* the error thrown when the read of the entity resolves
AlreadyExistsError(entityId) ==
  FrodoErrorPlain(Msg("Config entity already exists!", entityId))

\* the error thrown when the put fails with e
CreateError(entityId, e) ==
  FrodoError(Msg("Error creating config entity", entityId),
             UpdateError(entityId, e))

\* createConfigEntity is called: readConfigEntity is awaited first
StartCreate ==
  /\ op = "none"
  /\ \E id \in Ids, b \in Bodies : entity' = Entity(id, b)
  /\ op' = "create"
  /\ pc' = "read"
  /\ inflight' = {Call("get", entity'._id, 1)}
  /\ calls' = <<Call("get", entity'._id, 1)>>
  /\ UNCHANGED <<previous, store, deploymentType, importData, options, type,
                 configurations, i, response, result, results, errors, trace,
                 outcome, thrown, retval, exportData, log, summary>>

\* the read resolves: the entity exists and the call fails
CreateReadOk ==
  /\ op = "create" /\ pc = "read"
  /\ store[entity._id] # Absent
  /\ inflight' = {}
  /\ trace' = Append(trace, Item(entity._id, "ok", NoError))
  /\ outcome' = "threw"
  /\ thrown' = AlreadyExistsError(entity._id)
  /\ pc' = "done"
  /\ UNCHANGED <<previous, entity, store, deploymentType, op, importData,
                 options, type, configurations, i, response, result, results,
                 errors, calls, retval, exportData, log, summary>>

\* the read rejects with e, whatever e is: the catch block issues the put
CreateReadFail(e) ==
  /\ op = "create" /\ pc = "read"
  /\ inflight' = {Call("put", entity._id, 2)}
  /\ calls' = Append(calls, Call("put", entity._id, 2))
  /\ trace' = Append(trace, Item(entity._id, "fail", e))
  /\ pc' = "put"
  /\ UNCHANGED <<previous, entity, store, deploymentType, op, importData,
                 options, type, configurations, i, response, result, results,
                 errors, outcome, thrown, retval, exportData, log, summary>>

\* the put resolves: its result is returned
CreatePutOk ==
  /\ op = "create" /\ pc = "put"
  /\ store' = putConfigEntity(store, entity._id, entity)
  /\ inflight' = {}
  /\ trace' = Append(trace, Item(entity._id, "ok", NoError))
  /\ retval' = <<getConfigEntity(store', entity._id)>>
  /\ outcome' = "returned"
  /\ pc' = "done"
  /\ UNCHANGED <<previous, entity, deploymentType, op, importData, options,
                 type, configurations, i, response, result, results, errors,
                 calls, thrown, exportData, log, summary>>

\* the put rejects with e: the error of updateConfigEntity is wrapped
CreatePutFail(e) ==
  /\ op = "create" /\ pc = "put"
  /\ inflight' = {}
  /\ trace' = Append(trace, Item(entity._id, "fail", e))
  /\ outcome' = "threw"
  /\ thrown' = CreateError(entity._id, e)
  /\ pc' = "done"
  /\ UNCHANGED <<previous, entity, store, deploymentType, op, importData,
                 options, type, configurations, i, response, result, results,
                 errors, calls, retval, exportData, log, summary>>

Create ==
  \/ StartCreate
  \/ CreateReadOk
  \/ \E e \in GetErrors : CreateReadFail(e)
  \/ CreatePutOk
  \/ \E e \in PutErrors : CreatePutFail(e)

NextCreate ==
  \/ Create
  \/ Writer

\* a create next to another client of the store
SpecCreate == Init /\ [][NextCreate]_vars

----------------------------------------------------------------------------
(* readConfigEntityTypes *)

\* Here an id is the string the store sends, kept as its characters.
Chars == {"a", "/"}

StubIds == SeqsOver(Chars, MaxIdLen)

\* the stub lists the store can answer with
StubLists == SeqsOver({Stub(id) : id \in StubIds}, MaxLen)

RECURSIVE split(_, _)
\* String.prototype.split: the pieces of s between the separators
split(s, sep) ==
  IF s = <<>> THEN << <<>> >>
  ELSE LET rest == split(Tail(s), sep)
       IN IF Head(s) = sep
          THEN << <<>> >> \o rest
          ELSE << <<Head(s)>> \o rest[1] >> \o Tail(rest)

RECURSIVE TypesOfKeepAll(_, _)
\* faulty variant: a type that was seen before is pushed again
TypesOfKeepAll(stubs, n) ==
  IF n = 0 THEN <<>>
  ELSE Append(TypesOfKeepAll(stubs, n - 1), split(stubs[n]._id, "/")[1])

RECURSIVE TypesOf(_, _)
\* the loop of lines 326-331 over the first n stubs
TypesOf(stubs, n) ==
  IF n = 0 THEN <<>>
  ELSE LET types == TypesOf(stubs, n - 1)
           t == split(stubs[n]._id, "/")[1]
       IN IF Len(split(stubs[n]._id, "/")) > 0 /\ t \notin Range(types)
          THEN Append(types, t)
          ELSE types

\* the error readConfigEntityTypes throws when the stubs cannot be read
TypesError(e) ==
  FrodoError(Msg("Error reading config entity types", NoId), StubsError(e))

\* no operation is running and the store is empty
InitTypes ==
  /\ store = [id \in Ids |-> Absent]
  /\ deploymentType \in DeploymentTypes
  /\ op = "none" /\ pc = "idle"
  /\ importData = <<>> /\ options = [validate |-> FALSE] /\ type = ""
  /\ configurations = <<>> /\ i = 1
  /\ response = <<>> /\ result = <<>> /\ results = <<>> /\ errors = <<>>
  /\ inflight = {} /\ calls = <<>> /\ trace = <<>>
  /\ outcome = "pending" /\ thrown = NoError /\ retval = <<>>
  /\ exportData = NoBundle /\ log = <<>> /\ summary = -1
  /\ entity = Undefined
  /\ previous = NoCall(store)

\* readConfigEntityTypes is called: readConfigEntityStubs is awaited
StartTypes ==
  /\ op = "none"
  /\ op' = "types"
  /\ pc' = "list"
  /\ inflight' = {Call("listStubs", NoId, 0)}
  /\ calls' = <<Call("listStubs", NoId, 0)>>
  /\ UNCHANGED <<previous, entity, store, deploymentType, importData,
                 options, type, configurations, i, response, result, results,
                 errors, trace, outcome, thrown, retval, exportData, log,
                 summary>>

\* the store answers with a stub list: the loop collects the types and
\* they are returned
TypesListOk ==
  /\ op = "types" /\ pc = "list"
  /\ \E stubs \in StubLists : configurations' = stubs
  /\ inflight' = {}
  /\ retval' = TypesOf(configurations', Len(configurations'))
  /\ outcome' = "returned"
  /\ pc' = "done"
  /\ UNCHANGED <<previous, entity, store, deploymentType, op, importData,
                 options, type, i, response, result, results, errors, calls,
                 trace, thrown, exportData, log, summary>>

\* the stubs cannot be read: the error is wrapped and thrown
TypesListFail(e) ==
  /\ op = "types" /\ pc = "list"
  /\ inflight' = {}
  /\ trace' = Append(trace, Item(NoId, "listfail", e))
  /\ outcome' = "threw"
  /\ thrown' = TypesError(e)
  /\ pc' = "done"
  /\ UNCHANGED <<previous, entity, store, deploymentType, op, importData,
                 options, type, configurations, i, response, result, results,
                 errors, calls, retval, exportData, log, summary>>

NextTypes ==
  \/ StartTypes
  \/ TypesListOk
  \/ \E e \in ListErrors : TypesListFail(e)

\* readConfigEntityTypes over every stub list of the bounds
SpecTypes == InitTypes /\ [][NextTypes]_vars

----------------------------------------------------------------------------
(* deleteConfigEntities and deleteConfigEntitiesByType next to another writer *)

NextDW ==
  \/ DeleteAll
  \/ DeleteByType
  \/ Writer

\* a delete batch running while another client writes to the store
SpecDW == Init /\ [][NextDW]_vars

----------------------------------------------------------------------------
(* The bulk operations and readConfigEntityTypes *)

NextFrames ==
  \/ Next
  \/ NextTypes

\* one call of any of the five operations, from any store
SpecFrames == Init /\ [][NextFrames]_vars

----------------------------------------------------------------------------
(* deleteConfigEntity of IdmConfigOps *)

\* the error the catch block of deleteConfigEntity would throw
DeleteError(entityId, e) ==
  FrodoError(Msg("Error deleting config entity", entityId), e)

\* deleteConfigEntity is called: the promise of the store delete is
\* returned from inside the try block without being awaited
StartDeleteOne ==
  /\ op = "none"
  /\ \E id \in Ids : entity' = Stub(id)
  /\ op' = "delete"
  /\ pc' = "await"
  /\ inflight' = {Call("delete", entity'._id, 1)}
  /\ calls' = <<Call("delete", entity'._id, 1)>>
  /\ UNCHANGED <<previous, store, deploymentType, importData, options, type,
                 configurations, i, response, result, results, errors, trace,
                 outcome, thrown, retval, exportData, log, summary>>

\* the store delete resolves: the caller gets the deleted entity
DeleteOneOk ==
  /\ op = "delete" /\ pc = "await"
  /\ store[entity._id] # Absent
  /\ store' = deleteConfigEntity(store, entity._id)
  /\ inflight' = {}
  /\ trace' = Append(trace, Item(entity._id, "ok", NoError))
  /\ retval' = <<getConfigEntity(store, entity._id)>>
  /\ outcome' = "returned"
  /\ pc' = "done"
  /\ UNCHANGED <<previous, entity, deploymentType, op, importData, options,
                 type, configurations, i, response, result, results, errors,
                 calls, thrown, exportData, log, summary>>

\* the store delete rejects with e after the try block has been left: the
\* promise of deleteConfigEntity rejects with e itself
DeleteOneFail(e) ==
  /\ op = "delete" /\ pc = "await"
  /\ inflight' = {}
  /\ trace' = Append(trace, Item(entity._id, "fail", e))
  /\ outcome' = "threw"
  /\ thrown' = e
  /\ pc' = "done"
  /\ UNCHANGED <<previous, entity, store, deploymentType, op, importData,
                 options, type, configurations, i, response, result, results,
                 errors, calls, retval, exportData, log, summary>>

NextDeleteOne ==
  \/ StartDeleteOne
  \/ DeleteOneOk
  \/ \E e \in DeleteErrors : DeleteOneFail(e)

\* one call of deleteConfigEntity from any store
SpecDeleteOne == Init /\ [][NextDeleteOne]_vars

----------------------------------------------------------------------------
(* The bulk operations when every store call settles *)

\* a store call that is in flight settles, with a result or with an error
Settle ==
  \/ ImportPutOk
  \/ \E e \in PutErrors : ImportPutFail(e)
  \/ DeleteAllListOk
  \/ \E e \in ListErrors : DeleteAllListFail(e)
  \/ DeleteAllOk
  \/ \E e \in DeleteErrors : DeleteAllFail(e)
  \/ DeleteByTypeListOk
  \/ \E e \in ListErrors : DeleteByTypeListFail(e)
  \/ DeleteByTypeOk
  \/ \E e \in DeleteErrors : DeleteByTypeFail(e)
  \/ ExportListOk
  \/ \E e \in ListErrors : ExportListFail(e)
  \/ \E k \in 1..Len(IdOrder) : ExportGetOk(k)
  \/ \E k \in 1..Len(IdOrder), e \in GetErrors : ExportGetFail(k, e)

\* the code of an operation runs on until its next await or its end
Continue ==
  \/ ImportInvalid
  \/ ImportPut
  \/ ImportFinish
  \/ DeleteAllIssue
  \/ DeleteAllFinish
  \/ DeleteByTypeIssue
  \/ DeleteByTypeFinish
  \/ ExportFinish

\* the bulk operations over a store whose calls all settle
SpecSettling == Spec /\ WF_vars(Settle) /\ WF_vars(Continue)

----------------------------------------------------------------------------
(* Properties *)

\* the listing call of the running operation failed
ListFailed == \E k \in 1..Len(trace) : trace[k].res = "listfail"

\* the items of the trace whose store call failed
FailedItems == SelectSeq(trace, LAMBDA t : t.res = "fail")

\* the four conditions under which importConfigEntities drops a put failure
Suppressible(t) ==
  /\ deploymentType = "cloud"
  /\ t.id \in AIC_PROTECTED_ENTITIES
  /\ t.err.httpStatus = 403
  /\ t.err.httpCode = "ERR_BAD_REQUEST"

\* the items of an import that recorded a failure, and the error of each
RecordedItems ==
  SelectSeq(trace, LAMBDA t : (t.res = "invalid") \/
                             (t.res = "fail" /\ ~Suppressible(t)))

RecordedError(t) ==
  IF t.res = "invalid"
  THEN FrodoErrorPlain(Msg("Invalid script hook in the config object", t.id))
  ELSE FrodoError(Msg("Error updating config entity", t.id), t.err)

\* the put calls issued so far for an id
PutsFor(id) == {k \in 1..Len(calls) : calls[k].kind = "put" /\ calls[k].id = id}

\* C1: importConfigEntities never short-circuits: when the call completes
\* every id of the bundle has been attempted, in bundle order; the call fails
\* exactly when at least one id recorded a failure, and the error then wraps
\* one error per recorded failure, in bundle order, never an empty list.
C1_ImportAttemptsAllThenAggregates ==
  (op = "import" /\ outcome # "pending") =>
    /\ Len(trace) = Len(importData)
    /\ \A k \in 1..Len(trace) : trace[k].id = importData[k]._id
    /\ \A k \in 1..Len(trace) :
         trace[k].res = "invalid" \/ PutsFor(trace[k].id) # {}
    /\ ((outcome = "threw") <=> (Len(RecordedItems) > 0))
    /\ outcome = "threw" =>
         /\ thrown.originalErrors =
              [k \in 1..Len(RecordedItems) |-> RecordedError(RecordedItems[k])]
         /\ Len(thrown.originalErrors) >= 1
    /\ outcome = "returned" => thrown = NoError

\* a failed call whose first id failed and whose second id was still written
C1_Witness ==
  /\ op = "import" /\ outcome = "threw"
  /\ Len(trace) = 2
  /\ trace[1].res = "fail" /\ ~Suppressible(trace[1])
  /\ trace[2].res = "ok"

\* C2: with options.validate, an id whose entity fails the script hook
\* validator never gets a put; its validation error is among the errors of
\* the aggregate failure and the remaining ids are still processed.
C2_InvalidHookNeverStored ==
  (op = "import" /\ options.validate) =>
    \A k \in 1..Len(importData) :
      importData[k].body \in InvalidHookBodies =>
        /\ PutsFor(importData[k]._id) = {}
        /\ outcome # "pending" =>
             /\ outcome = "threw"
             /\ \E j \in 1..Len(thrown.originalErrors) :
                  thrown.originalErrors[j] =
                    FrodoErrorPlain(Msg("Invalid script hook in the config object",
                                        importData[k]._id))
             /\ Len(trace) = Len(importData)
             /\ \A m \in 1..Len(importData) :
                  importData[m].body \notin InvalidHookBodies =>
                    PutsFor(importData[m]._id) # {}

\* a validating import whose first entity is invalid and whose second is written
C2_Witness ==
  /\ op = "import" /\ options.validate /\ outcome = "threw"
  /\ Len(importData) = 2
  /\ importData[1].body \in InvalidHookBodies
  /\ trace[2].res = "ok"
  /\ store[importData[2]._id] = importData[2].body

\* the results an import returns when the items of the trace that succeeded
\* are the only ones contributing
OkEntities ==
  LET oks == SelectSeq(trace, LAMBDA t : t.res = "ok")
  IN [k \in 1..Len(oks) |->
        CHOOSE e \in Range(importData) : e._id = oks[k].id]

\* C3: against a cloud deployment a put failure with status 403 and the
\* bad-request code for a protected id is not recorded and does not stop the
\* batch; when no other id fails the call returns the results of the others.
C3_ProtectedFailureSuppressed ==
  (op = "import" /\ deploymentType = "cloud") =>
    \A k \in 1..Len(trace) :
      ( /\ trace[k].res = "fail"
        /\ trace[k].id \in AIC_PROTECTED_ENTITIES
        /\ trace[k].err.httpStatus = 403
        /\ trace[k].err.httpCode = "ERR_BAD_REQUEST" ) =>
        /\ \A j \in 1..Len(errors) : errors[j].message[2] # trace[k].id
        /\ \A j \in 1..Len(response) : response[j]._id # trace[k].id
        /\ i > k /\ pc \in {"loop", "await", "done"}
        /\ outcome # "pending" =>
             /\ Len(trace) = Len(importData)
             /\ (\A m \in 1..Len(trace) : m # k => trace[m].res = "ok") =>
                  /\ outcome = "returned"
                  /\ retval = OkEntities
                  /\ Len(retval) = Len(importData) - 1

\* a cloud import that succeeds although the put of a protected id failed
C3_Witness ==
  /\ op = "import" /\ deploymentType = "cloud" /\ outcome = "returned"
  /\ Len(trace) = 2
  /\ trace[1].res = "fail" /\ trace[1].id = OnboardingId
  /\ trace[1].err = E403BadRequest
  /\ trace[2].res = "ok"
  /\ Len(retval) = 1

\* C4: a put failure is recorded, and makes the call fail, whenever one of
\* the four suppression conditions is missing.
C4_OtherFailuresRecorded ==
  op = "import" =>
    \A k \in 1..Len(trace) :
      ( /\ trace[k].res = "fail"
        /\ \/ deploymentType # "cloud"
           \/ trace[k].id \notin AIC_PROTECTED_ENTITIES
           \/ trace[k].err.httpStatus # 403
           \/ trace[k].err.httpCode # "ERR_BAD_REQUEST" ) =>
        /\ \E j \in 1..Len(errors) :
             errors[j] = FrodoError(Msg("Error updating config entity",
                                        trace[k].id), trace[k].err)
        /\ outcome # "pending" =>
             /\ outcome = "threw"
             /\ \E j \in 1..Len(thrown.originalErrors) :
                  thrown.originalErrors[j] =
                    FrodoError(Msg("Error updating config entity", trace[k].id),
                               trace[k].err)

\* a cloud import failing on a protected id answered 403 with another code
C4_Witness ==
  /\ op = "import" /\ deploymentType = "cloud" /\ outcome = "threw"
  /\ \E k \in 1..Len(trace) :
       /\ trace[k].res = "fail" /\ trace[k].id = OnboardingId
       /\ trace[k].err = E403OtherCode

\* the working set of the running sequential batch
WorkingSet == IF op = "import" THEN importData ELSE configurations

\* the per-item store calls issued so far
ItemCalls == SelectSeq(calls, LAMBDA c : c.idx > 0)

\* C5: in an import, deleteAll or deleteAllOfType batch at most one store
\* call is in flight at any time; the call of an item is issued only after
\* the calls of the items before it have completed, in working set order.
C5_SequentialBatches ==
  op \in {"import", "deleteAll", "deleteByType"} =>
    /\ Cardinality(inflight) <= 1
    /\ inflight # {} => inflight = {calls[Len(calls)]}
    /\ \A a, b \in 1..Len(ItemCalls) :
         a < b => ItemCalls[a].idx < ItemCalls[b].idx
    /\ \A a \in 1..Len(ItemCalls) :
         /\ ItemCalls[a].id = WorkingSet[ItemCalls[a].idx]._id
         /\ ItemCalls[a].idx <= i
         /\ ((ItemCalls[a] \in inflight) <=>
               (pc = "await" /\ ItemCalls[a].idx = i))

\* the delete of the second stub is in flight after the first one completed
C5_Witness ==
  /\ op = "deleteAll" /\ pc = "await" /\ i = 2
  /\ Len(trace) = 1
  /\ inflight = {Call("delete", configurations[2]._id, 2)}

\* C6: importConfigEntities performs no rollback: when the call fails with
\* the aggregate error, every id whose put succeeded during the batch is
\* still written in the store with the body of the bundle.
C6_NoRollback ==
  (op = "import" /\ outcome = "threw") =>
    \A k \in 1..Len(trace) :
      trace[k].res = "ok" => store[importData[k]._id] = importData[k].body

\* a failed import that left in the store a body the store did not hold before
C6_Witness ==
  /\ op = "import" /\ outcome = "threw"
  /\ \E k \in 1..Len(trace) :
       /\ trace[k].res = "ok"
       /\ importData[k].body \notin StoredBodies
       /\ store[importData[k]._id] = importData[k].body

\* the get calls issued so far
GetCalls == {k \in 1..Len(calls) : calls[k].kind = "get"}

\* C7: when the listing call of exportConfigEntities fails, no per-entity
\* fetch is issued, no bundle is produced, and exportConfigEntities fails
\* with an error instead of completing normally.
C7_ListingFailureFailsExport ==
  (op = "export" /\ pc = "done" /\ ListFailed) =>
    /\ GetCalls = {}
    /\ exportData = NoBundle
    /\ outcome = "threw"

\* the ids whose refetch succeeded / failed
FetchedIds == {trace[k].id : k \in {j \in 1..Len(trace) : trace[j].res = "ok"}}

FailedIds == {trace[k].id : k \in {j \in 1..Len(trace) : trace[j].res = "fail"}}

\* C8: when the listing succeeds no failure of a per-entity refetch makes
\* exportConfigEntities fail: it returns a bundle that omits every entity
\* whose refetch failed and holds every entity whose refetch succeeded.
C8_ExportBestEffort ==
  (op = "export" /\ ~ListFailed) =>
    /\ outcome # "threw"
    /\ pc = "done" =>
         /\ outcome = "returned"
         /\ exportData.meta
         /\ Len(trace) = Len(configurations)
         /\ DOMAIN exportData.idm = FetchedIds
         /\ \A id \in FailedIds : id \notin DOMAIN exportData.idm
         /\ \A id \in FetchedIds : exportData.idm[id] = Entity(id, store[id])

\* an export that returns one entity although two refetches failed, one of
\* them without any HTTP response
C8_Witness ==
  /\ op = "export" /\ pc = "done" /\ outcome = "returned"
  /\ Cardinality(FailedIds) = 2
  /\ Cardinality(DOMAIN exportData.idm) = 1
  /\ \E k \in 1..Len(trace) : trace[k].err = ENetwork
  /\ \E k \in 1..Len(trace) : trace[k].err = E403BadRequest

\* C9: deleteConfigEntities lists the stubs once and issues one delete per
\* listed stub; a failed delete is kept in the error list and never stops
\* the remaining deletes; after every stub was attempted the call fails with
\* the failed deletes, in listing order, if there are any, and otherwise
\* returns the delete results of all stubs in listing order.
C9_DeleteAllAggregates ==
  (op = "deleteAll" /\ pc = "done" /\ ~ListFailed) =>
    /\ calls = <<Call("listStubs", NoId, 0)>> \o
                [k \in 1..Len(configurations) |->
                   Call("delete", configurations[k]._id, k)]
    /\ Len(trace) = Len(configurations)
    /\ \A k \in 1..Len(trace) : trace[k].id = configurations[k]._id
    /\ \A k \in 1..Len(trace) :
         trace[k].res = "ok" => store[trace[k].id] = Absent
    /\ IF Len(FailedItems) > 0
       THEN /\ outcome = "threw"
            /\ thrown.originalErrors =
                 [k \in 1..Len(FailedItems) |-> FailedItems[k].err]
       ELSE /\ outcome = "returned"
            /\ Len(retval) = Len(configurations)
            /\ \A k \in 1..Len(retval) :
                 /\ retval[k]._id = configurations[k]._id
                 /\ retval[k].body # Absent

\* a deleteAll over three stubs whose first delete failed and whose other two
\* deletes were still made
C9_Witness ==
  /\ op = "deleteAll" /\ pc = "done" /\ outcome = "threw"
  /\ Len(configurations) = 3
  /\ trace[1].res = "fail" /\ trace[2].res = "ok" /\ trace[3].res = "ok"
  /\ Len(thrown.originalErrors) = 1

\* the delete calls issued so far
DeleteCalls == {k \in 1..Len(calls) : calls[k].kind = "delete"}

\* C10: deleteConfigEntitiesByType: when the listing returns n entities and
\* k of the n deletes fail, n delete calls are made and the n - k others are
\* deleted; with k >= 1 the call fails with an error wrapping exactly the k
\* errors, with k = 0 it returns the n delete results.
C10_DeleteByTypeCounts ==
  (op = "deleteByType" /\ pc = "done" /\ ~ListFailed) =>
    LET n == Len(configurations)
        k == Len(FailedItems)
    IN /\ Cardinality(DeleteCalls) = n
       /\ \A j \in 1..n : calls[j + 1] = Call("delete", configurations[j]._id, j)
       /\ Len(result) = n - k
       /\ \A j \in 1..Len(trace) :
            trace[j].res = "ok" => store[trace[j].id] = Absent
       /\ k >= 1 =>
            /\ outcome = "threw"
            /\ Len(thrown.originalErrors) = k
            /\ thrown.originalErrors = [j \in 1..k |-> FailedItems[j].err]
       /\ k = 0 =>
            /\ outcome = "returned"
            /\ Len(retval) = n
            /\ \A j \in 1..n : retval[j]._id = configurations[j]._id

\* a deleteAllOfType over two entities whose first delete failed
C10_Witness ==
  /\ op = "deleteByType" /\ pc = "done" /\ outcome = "threw"
  /\ Len(configurations) = 2
  /\ trace[1].res = "fail" /\ trace[2].res = "ok"
  /\ Cardinality(DeleteCalls) = 2
  /\ Len(thrown.originalErrors) = 1

\* the error a failed listing call of a delete operation is wrapped in
ListingError(e) == IF op = "deleteAll" THEN StubsError(e) ELSE ByTypeError(e)

DeleteMessage ==
  IF op = "deleteAll"
  THEN Msg("Error deleting config entities", NoId)
  ELSE Msg("Error deleting config entities by type", NoId)

\* C11: in deleteConfigEntities and deleteConfigEntitiesByType a failure of
\* the listing call issues no delete and reaches the caller as one error
\* wrapping the single cause, not as the list of per-item errors that failed
\* deletes produce.
C11_ListingFailureSingleCause ==
  (op \in {"deleteAll", "deleteByType"} /\ pc = "done" /\ ListFailed) =>
    /\ DeleteCalls = {}
    /\ outcome = "threw"
    /\ thrown = FrodoError(DeleteMessage, ListingError(trace[1].err))

\* a store call failed without an HTTP response
TransportFailed(k) == trace[k].err.httpStatus = 0 /\ trace[k].res # "ok"
                      /\ trace[k].res # "invalid"

\* C12 as stated: a store call that fails without an HTTP response ends the
\* operation at that call: nothing is processed after it and the operation
\* does not return normally.  (The listing call of exportConfigEntities is
\* the subject of C7 and left out here.)
C12_TransportFailureFatal ==
  \A k \in 1..Len(trace) :
    (TransportFailed(k) /\ ~(op = "export" /\ trace[k].res = "listfail")) =>
      /\ pc \in {"after", "done"}
      /\ Len(trace) = k
      /\ outcome # "returned"

\* C12, amended: a store call that fails without an HTTP response is handled
\* like any other failure of that call.  At a listing call no further store
\* call is issued.  At a put or delete it is never suppressed: it is kept in
\* the error list, the remaining items are still attempted and the operation
\* fails with the aggregate error after the batch.  At a per-entity get of
\* exportConfigEntities it is logged, the entity is omitted and the export
\* still returns its bundle.
C12_TransportFailureHandledLikeOthers ==
  \A k \in 1..Len(trace) :
    TransportFailed(k) =>
      /\ trace[k].res = "listfail" => Len(calls) = 1
      /\ (trace[k].res = "fail" /\ op = "import") =>
           /\ \E j \in 1..Len(errors) :
                errors[j] = FrodoError(Msg("Error updating config entity",
                                           trace[k].id), trace[k].err)
           /\ pc = "done" =>
                outcome = "threw" /\ Len(trace) = Len(importData)
      /\ (trace[k].res = "fail" /\ op \in {"deleteAll", "deleteByType"}) =>
           /\ \E j \in 1..Len(errors) : errors[j] = trace[k].err
           /\ pc = "done" =>
                outcome = "threw" /\ Len(trace) = Len(configurations)
      /\ (trace[k].res = "fail" /\ op = "export") =>
           /\ \E j \in 1..Len(log) : log[j] = trace[k].id
           /\ pc = "done" =>
                /\ outcome = "returned"
                /\ exportData.meta
                /\ trace[k].id \notin DOMAIN exportData.idm
                /\ Len(trace) = Len(configurations)

\* an import whose first put got no HTTP response and whose second put was
\* still made and written
C12_Witness ==
  /\ op = "import" /\ pc = "done" /\ outcome = "threw"
  /\ Len(trace) = 2
  /\ trace[1].res = "fail" /\ trace[1].err = ENetwork
  /\ trace[2].res = "ok"
  /\ Len(calls) = 2

\* the ids for which an error-level message was printed
LoggedIds == {log[j] : j \in 1..Len(log)}

\* C13: in exportConfigEntities an id of the known-unavailable list whose
\* refetch fails with status 404 and reason "Not Found" is omitted from the
\* bundle, does not make the export fail and gets no error-level message.
C13_UnavailableNotFoundSilent ==
  op = "export" =>
    \A k \in 1..Len(trace) :
      ( /\ trace[k].res = "fail"
        /\ trace[k].id \in IDM_UNAVAILABLE_ENTITIES
        /\ trace[k].err.httpStatus = 404
        /\ trace[k].err.httpErrorReason = "Not Found" ) =>
        /\ trace[k].id \notin LoggedIds
        /\ outcome # "threw"
        /\ pc = "done" =>
             /\ outcome = "returned"
             /\ exportData.meta
             /\ trace[k].id \notin DOMAIN exportData.idm

\* an export in which the refetch of 'script' answered 404 "Not Found" while
\* another refetch failed and was logged
C13_Witness ==
  /\ op = "export" /\ pc = "done" /\ outcome = "returned"
  /\ \E k \in 1..Len(trace) :
       /\ trace[k].id = ScriptId /\ trace[k].err = E404NotFound
  /\ ScriptId \notin LoggedIds
  /\ LoggedIds # {}

\* C14 as stated: for an id outside the known-unavailable list every refetch
\* failing with status 404 is logged as an error, and the other entities are
\* still exported.
C14_Other404Logged ==
  op = "export" =>
    \A k \in 1..Len(trace) :
      ( /\ trace[k].res = "fail"
        /\ trace[k].id \notin IDM_UNAVAILABLE_ENTITIES
        /\ trace[k].err.httpStatus = 404 ) =>
        /\ trace[k].id \in LoggedIds
        /\ pc = "done" =>
             /\ outcome = "returned"
             /\ Len(trace) = Len(configurations)
             /\ FetchedIds \subseteq DOMAIN exportData.idm

\* C14, amended: for an id outside the known-unavailable list a refetch
\* failing with status 404 is logged as an error unless its message is
\* exactly the one naming the legacy file-install configuration, and the
\* other entities are still exported.
C14_Other404LoggedUnlessFileInstall ==
  op = "export" =>
    \A k \in 1..Len(trace) :
      ( /\ trace[k].res = "fail"
        /\ trace[k].id \notin IDM_UNAVAILABLE_ENTITIES
        /\ trace[k].err.httpStatus = 404
        /\ trace[k].err.httpMessage #
             "No configuration exists for id org.apache.felix.fileinstall/openidm" ) =>
        /\ trace[k].id \in LoggedIds
        /\ pc = "done" =>
             /\ outcome = "returned"
             /\ Len(trace) = Len(configurations)
             /\ FetchedIds \subseteq DOMAIN exportData.idm

\* an export in which the refetch of an ordinary id answered 404 "Not Found"
\* and was logged while another entity was exported
C14_Witness ==
  /\ op = "export" /\ pc = "done" /\ outcome = "returned"
  /\ \E k \in 1..Len(trace) :
       /\ trace[k].id = WelcomeId /\ trace[k].err = E404NotFound
  /\ WelcomeId \in LoggedIds
  /\ OnboardingId \in DOMAIN exportData.idm

\* the ids the listing returned
ListedIds == {configurations[k]._id : k \in 1..Len(configurations)}

\* C15: the keys of the bundle exportConfigEntities returns are exactly the
\* listed ids whose refetch succeeded, each key maps to the entity the
\* refetch returned and not to the one of the listing, and the bundle
\* carries meta.
C15_BundleHoldsRefetchedBodies ==
  (op = "export" /\ pc = "done" /\ ~ListFailed) =>
    /\ exportData.meta
    /\ DOMAIN exportData.idm = FetchedIds
    /\ FetchedIds \subseteq ListedIds
    /\ \A k \in 1..Len(configurations) :
         results[k] # Undefined =>
           /\ results[k]._id = configurations[k]._id
           /\ exportData.idm[configurations[k]._id] = results[k]

\* an export returned an entity whose body was replaced between the listing
\* and its refetch, next to a listed entity that was deleted in between
C15_Witness ==
  /\ op = "export" /\ pc = "done" /\ ~ListFailed
  /\ \E k \in 1..Len(configurations) :
       /\ results[k] # Undefined
       /\ exportData.idm[configurations[k]._id].body # configurations[k].body
  /\ FetchedIds # ListedIds

\* the refetches of an export that have not settled yet
PendingGets ==
  {Call("get", configurations[k]._id, k) :
     k \in {j \in 1..Len(configurations) : results[j] = Pending}}

\* C16: exportConfigEntities issues the refetch of every listed entity
\* before it waits for any of them, so that all of them can be in flight
\* together, and it completes only after every refetch has settled.
C16_FanOutThenWaitForAll ==
  (op = "export" /\ pc \in {"all", "done"} /\ ~ListFailed) =>
    /\ calls = <<Call("list", NoId, 0)>> \o
                [k \in 1..Len(configurations) |->
                   Call("get", configurations[k]._id, k)]
    /\ inflight = PendingGets
    /\ pc = "done" =>
         /\ inflight = {}
         /\ Len(trace) = Len(configurations)
         /\ \A k \in 1..Len(configurations) :
              \E j \in 1..Len(trace) : trace[j].id = configurations[k]._id

\* the refetches of all three entities of the store are in flight at once
C16_Witness ==
  /\ op = "export" /\ pc = "all"
  /\ Len(configurations) = Len(IdOrder)
  /\ Cardinality(inflight) = Len(configurations)
  /\ trace = <<>>

\* C17: the terminal summary of exportConfigEntities reports the number of
\* entries of the returned bundle, whichever refetches failed.
C17_SummaryCountsExported ==
  (op = "export" /\ pc = "done" /\ ~ListFailed) =>
    summary = Cardinality(DOMAIN exportData.idm)

\* C18: importConfigEntities of the bundle exportConfigEntities just
\* returned, with validate off, leaves every entity of the store as it was,
\* and when the store accepts every put it returns normally with one
\* result per entity of the bundle and no aggregate error.
C18_RoundTrip ==
  (op = "import" /\ exportData.meta) =>
    /\ store = previous.store
    /\ (pc = "done" /\ FailedItems = <<>>) =>
         /\ outcome = "returned"
         /\ thrown = NoError
         /\ errors = <<>>
         /\ [k \in 1..Len(retval) |-> retval[k]._id] =
              [k \in 1..Len(importData) |-> importData[k]._id]
         /\ DOMAIN exportData.idm = {retval[k]._id : k \in 1..Len(retval)}

\* the bundle of a store with three entities, one of them with a body that
\* validation would reject, was imported again and every put was accepted
C18_Witness ==
  /\ op = "import" /\ pc = "done" /\ exportData.meta
  /\ FailedItems = <<>>
  /\ Len(importData) = Len(IdOrder)
  /\ \E k \in 1..Len(importData) : ~areScriptHooksValid(importData[k])
  /\ Len(trace) = Len(importData)

\* the ids whose item of the trace tr has the result res
IdsWith(tr, res) == {tr[k].id : k \in {j \in 1..Len(tr) : tr[j].res = res}}

\* C19: a second importConfigEntities with the same bundle and options
\* changes no entity the first one wrote, so that with the same puts
\* accepted it leaves the store of the first run and ends as the first run
\* did; the put of an id the store already holds is accepted as an
\* overwrite and not failed for existing.
C19_ImportIdempotent ==
  (op = "import" /\ previous.op = "import") =>
    /\ \A id \in Ids :
         store[id] # previous.store[id] =>
           /\ id \in IdsWith(previous.trace, "fail")
           /\ id \in IdsWith(trace, "ok")
    /\ (pc = "done" /\ trace = previous.trace) =>
         /\ store = previous.store
         /\ outcome = previous.outcome
         /\ thrown = previous.thrown
    /\ pc = "await" => ENABLED ImportPutOk

\* the second run of an import of two or more entities ended with the same
\* puts accepted as the first, one of them for an id the first run had
\* written, next to one that failed in both
C19_Witness ==
  /\ op = "import" /\ pc = "done" /\ previous.op = "import"
  /\ trace = previous.trace
  /\ Len(trace) >= 2
  /\ \E k \in 1..Len(trace) :
       /\ trace[k].res = "ok"
       /\ store[trace[k].id] # Absent
  /\ IdsWith(trace, "fail") # {}

\* C20: createConfigEntity never has a put in flight for an id the store
\* holds, and an entity the store holds when the put is accepted is not
\* overwritten.
C20_CreateNeverOverwrites ==
  (op = "create" /\ pc = "put") => store[entity._id] = Absent

\* the characters of id before its first '/', all of id when it has none
BeforeSlash(id) ==
  LET slashes == {k \in 1..Len(id) : id[k] = "/"}
      first == IF slashes = {} THEN Len(id) + 1
               ELSE CHOOSE k \in slashes : \A j \in slashes : k <= j
  IN SubSeq(id, 1, first - 1)

\* the position of the first stub whose type is t
FirstStub(t) ==
  CHOOSE k \in 1..Len(configurations) :
    /\ BeforeSlash(configurations[k]._id) = t
    /\ \A j \in 1..(k - 1) : BeforeSlash(configurations[j]._id) # t

\* C21: readConfigEntityTypes returns the first path segment of every stub
\* id, the whole id when it has no '/', each once and in the order of first
\* appearance, and it makes the one listStubs call and no other store call.
C21_TypesFirstSeenOnce ==
  (op = "types" /\ pc = "done") =>
    /\ calls = <<Call("listStubs", NoId, 0)>>
    /\ store = previous.store
    /\ outcome = "returned" =>
         /\ Range(retval) =
              {BeforeSlash(configurations[k]._id) :
                 k \in 1..Len(configurations)}
         /\ NoDup(retval)
         /\ \A a, b \in 1..Len(retval) :
              a < b => FirstStub(retval[a]) < FirstStub(retval[b])

\* two stubs of one type, one id with a '/' and one without, gave one type
C21_Witness ==
  /\ op = "types" /\ pc = "done" /\ outcome = "returned"
  /\ Len(configurations) >= 2
  /\ Len(retval) < Len(configurations)
  /\ \E k \in 1..Len(configurations) : "/" \in Range(configurations[k]._id)
  /\ \E k \in 1..Len(configurations) :
       /\ "/" \notin Range(configurations[k]._id)
       /\ configurations[k]._id # <<>>

\* C22: when the listing of exportConfigEntities returns no entity, no
\* refetch is issued, the export can complete at once, and it returns a
\* bundle with meta and an empty entity map without failing or logging.
C22_EmptyListingEmptyBundle ==
  (op = "export" /\ pc \in {"all", "done"} /\ ~ListFailed
     /\ configurations = <<>>) =>
    /\ GetCalls = {}
    /\ inflight = {}
    /\ pc = "all" => ENABLED ExportFinish
    /\ pc = "done" =>
         /\ outcome = "returned"
         /\ thrown = NoError
         /\ exportData.meta
         /\ DOMAIN exportData.idm = {}
         /\ log = <<>>

\* an export of a store without entities has returned
C22_Witness ==
  /\ op = "export" /\ pc = "done" /\ ~ListFailed
  /\ configurations = <<>>
  /\ calls = <<Call("list", NoId, 0)>>
  /\ exportData = ExportTemplate(<<>>)

\* rule (a): the cloud offering does not allow the operation
CloudUnavailable(e) ==
  /\ e.httpStatus = 403
  /\ e.httpMessage =
       "This operation is not available in ForgeRock Identity Cloud."

\* rule (b): an entity known to be unavailable was not found
KnownUnavailable(id, e) ==
  /\ id \in IDM_UNAVAILABLE_ENTITIES
  /\ e.httpStatus = 404
  /\ e.httpErrorReason = "Not Found"

\* rule (c): the answer names the legacy file-install configuration
FileInstallMissing(e) ==
  /\ e.httpStatus = 404
  /\ e.httpMessage =
       "No configuration exists for id org.apache.felix.fileinstall/openidm"

\* C23: in exportConfigEntities a refetch failure is logged at error level
\* exactly when none of the rules (a), (b), (c) matches it, and logged or
\* not the entity is not in the bundle.
C23_LoggedIffNoRuleMatches ==
  op = "export" =>
    \A k \in 1..Len(trace) :
      trace[k].res = "fail" =>
        /\ (trace[k].id \in LoggedIds) <=>
             ~(\/ CloudUnavailable(trace[k].err)
               \/ KnownUnavailable(trace[k].id, trace[k].err)
               \/ FileInstallMissing(trace[k].err))
        /\ pc = "done" => trace[k].id \notin DOMAIN exportData.idm

\* an export whose three refetches failed: one matched rule (a), one rule
\* (c), and one matched no rule and was logged
C23_Witness ==
  /\ op = "export" /\ pc = "done" /\ ~ListFailed
  /\ Len(trace) = Len(IdOrder)
  /\ \E a, c, n \in 1..Len(trace) :
       /\ trace[a].res = "fail" /\ CloudUnavailable(trace[a].err)
       /\ trace[c].res = "fail" /\ FileInstallMissing(trace[c].err)
       /\ trace[n].res = "fail" /\ trace[n].id \in LoggedIds
  /\ Len(log) = 1
  /\ DOMAIN exportData.idm = {}

\* C24: when deletes of deleteConfigEntitiesByType fail, the caller gets the
\* aggregate error built after the loop as it was built: its causes are the
\* errors of the failed deletes, in order, none of them an error that wraps
\* other errors.
C24_AggregateRethrownUnchanged ==
  (op = "deleteByType" /\ pc = "done" /\ ~ListFailed
     /\ FailedItems # <<>>) =>
    /\ outcome = "threw"
    /\ thrown = FrodoErrorList(DeleteMessage, errors)
    /\ errors = [j \in 1..Len(FailedItems) |-> FailedItems[j].err]
    /\ \A j \in 1..Len(thrown.originalErrors) :
         /\ thrown.originalErrors[j].name = "AxiosError"
         /\ thrown.originalErrors[j].originalErrors = <<>>

\* a deleteAllOfType whose two deletes failed with different errors
C24_Witness ==
  /\ op = "deleteByType" /\ pc = "done" /\ outcome = "threw"
  /\ ~ListFailed
  /\ Len(thrown.originalErrors) = 2
  /\ thrown.originalErrors[1] # thrown.originalErrors[2]

\* C25: with validate off, which is also what an omitted options argument
\* gives, importConfigEntities rejects no id locally: every id it has
\* processed got its put, whatever its script hooks are.
C25_NoValidationNoLocalReject ==
  /\ OptionsParameter(OptionsOmitted).validate = FALSE
  /\ (op = "import" /\ ~options.validate) =>
       /\ ~ENABLED ImportInvalid
       /\ \A k \in 1..Len(trace) : trace[k].res # "invalid"
       /\ \A k \in 1..Len(importData) :
            ((k < i) \/ (pc = "await" /\ k = i)) <=>
              (PutsFor(importData[k]._id) # {})
       /\ pc = "done" => Len(ItemCalls) = Len(importData)

\* an import without validation wrote an entity whose script hook is invalid
C25_Witness ==
  /\ op = "import" /\ pc = "done" /\ ~options.validate
  /\ outcome = "returned"
  /\ \E k \in 1..Len(importData) :
       /\ importData[k].body \in InvalidHookBodies
       /\ store[importData[k]._id] = importData[k].body
       /\ trace[k].res = "ok"

\* a step in which the store changed
Written == store' # store

\* C26: the put of importConfigEntities carries no precondition: while it is
\* awaited it can be accepted whatever another writer has done to the
\* store since the import began, and every write, of the import or of the
\* other writer, replaces the body of its id and of no other id, so that the
\* body of an id is the one of the write applied last.
C26_LastWriteWins ==
  [][op = "import" =>
       /\ pc = "await" => ENABLED ImportPutOk
       /\ Written =>
            \E id \in Ids :
              /\ \A other \in Ids \ {id} : store'[other] = store[other]
              /\ \/ /\ pc = "await" /\ pc' = "loop"
                    /\ id = importData[i]._id
                    /\ store'[id] = importData[i].body
                    /\ outcome' = outcome /\ errors' = errors
                 \/ /\ pc' = pc /\ trace' = trace /\ errors' = errors
                    /\ store'[id] \in WrittenValues]_vars

\* an import whose first put was accepted and then overwritten by another
\* writer, and whose second put is awaited for an id the other writer has
\* replaced since the import began
C26_Witness ==
  /\ op = "import" /\ pc = "await" /\ i = 2
  /\ trace[1].res = "ok"
  /\ store[importData[1]._id] # importData[1].body
  /\ store[importData[2]._id] # previous.store[importData[2]._id]
  /\ store[importData[2]._id] # importData[2].body
  /\ ENABLED ImportPutOk

\* the positions of the listing whose refetch gave an entity with this id
FetchedAt(id) ==
  {k \in 1..Len(results) : results[k] # Undefined /\ results[k]._id = id}

\* C27: the bundle of exportConfigEntities is determined by the listing and
\* by what each refetch returned, not by the order in which the refetches
\* settled: its keys are the ids some refetch returned, and each key holds
\* the entity returned for the last position of the listing with that id.
C27_BundleIndependentOfSettleOrder ==
  (op = "export" /\ pc = "done" /\ ~ListFailed) =>
    /\ DOMAIN exportData.idm =
         {id \in ListedIds : FetchedAt(id) # {}}
    /\ \A id \in DOMAIN exportData.idm :
         \A k \in FetchedAt(id) :
           (\A j \in FetchedAt(id) : j <= k) => exportData.idm[id] = results[k]

\* a listing named one id twice and the second refetch settled first: it
\* returned the body the store had at the start, the first one the body
\* another client wrote later; the bundle holds what the second returned
C27_Witness ==
  /\ op = "export" /\ pc = "done" /\ ~ListFailed
  /\ Len(configurations) = 2
  /\ configurations[1]._id = configurations[2]._id
  /\ FetchedAt(configurations[1]._id) = {1, 2}
  /\ results[2].body = previous.store[configurations[2]._id]
  /\ results[1].body # previous.store[configurations[1]._id]
  /\ exportData.idm[configurations[1]._id] = results[2]

\* the ids of an import whose iteration has ended
Processed == IF pc = "done" THEN Len(importData) ELSE i - 1

\* the items of an import whose put failure was dropped
SuppressedItems == SelectSeq(trace, LAMBDA t : t.res = "fail" /\ Suppressible(t))

\* the items of an import whose put was accepted
AcceptedItems == SelectSeq(trace, LAMBDA t : t.res = "ok")

\* C28: at every point of an import each processed id is counted once, as a
\* result, as a recorded error or as a suppressed failure, so that the
\* three numbers add up to the number of ids processed; the import returns
\* normally only with no recorded error, and it fails only with one.
C28_ImportAccounting ==
  op = "import" =>
    /\ Len(trace) = Processed
    /\ Len(response) = Len(AcceptedItems)
    /\ Len(errors) = Len(RecordedItems)
    /\ Len(response) + Len(errors) + Len(SuppressedItems) = Processed
    /\ [k \in 1..Len(trace) |-> trace[k].id] =
         [k \in 1..Processed |-> importData[k]._id]
    /\ outcome = "returned" => (errors = <<>> /\ retval = response)
    /\ outcome = "threw" => errors # <<>>

\* an import of two ids ended with one result and one suppressed failure
\* and returned normally
C28_Witness ==
  /\ op = "import" /\ pc = "done" /\ outcome = "returned"
  /\ Len(importData) = 2
  /\ Len(response) = 1
  /\ Len(SuppressedItems) = 1
  /\ errors = <<>>

\* the kinds of the store calls issued so far
CallKinds == {calls[k].kind : k \in 1..Len(calls)}

\* the ids whose entity is not as it was before the operation
ChangedIds == {id \in Ids : store[id] # previous.store[id]}

\* C29: exportConfigEntities issues only listing and get calls,
\* readConfigEntityTypes only its listing call, and both leave the store as
\* it was; importConfigEntities issues only put calls and changes only ids
\* of its bundle; deleteConfigEntities and deleteConfigEntitiesByType issue
\* one listing call and after it only delete calls, for listed ids.
C29_Frames ==
  /\ op = "export" =>
       (CallKinds \subseteq {"list", "get"} /\ ChangedIds = {})
  /\ op = "types" =>
       (CallKinds \subseteq {"listStubs"} /\ ChangedIds = {})
  /\ op = "import" =>
       /\ CallKinds \subseteq {"put"}
       /\ ChangedIds \subseteq {importData[k]._id : k \in 1..Len(importData)}
  /\ op \in {"deleteAll", "deleteByType"} =>
       /\ calls[1].kind =
            (IF op = "deleteAll" THEN "listStubs" ELSE "listByType")
       /\ \A k \in 2..Len(calls) : calls[k].kind = "delete"
       /\ ChangedIds \subseteq ListedIds
       /\ \A id \in ChangedIds : store[id] = Absent

\* a deleteAll listed three entities and issued three deletes, one of which
\* failed: two entities are gone and the third is as it was
C29_Witness ==
  /\ op = "deleteAll" /\ pc = "done"
  /\ Len(calls) = 4
  /\ Cardinality(ChangedIds) = 2
  /\ Cardinality(ListedIds) = 3

\* the listing calls issued so far
ListingCalls ==
  {k \in 1..Len(calls) : calls[k].kind \in {"listStubs", "listByType"}}

\* C30: deleteConfigEntities and deleteConfigEntitiesByType list once,
\* before any delete, and issue at most one delete per entry of that
\* listing, in its order, each entry having got its delete when the batch
\* ends; a step of the batch never removes an entity that is not in the
\* listing, such as one another writer created after the listing.
C30_DeleteWorksOnSnapshot ==
  /\ [](op \in {"deleteAll", "deleteByType"} =>
          /\ ListingCalls = {1}
          /\ Cardinality(DeleteCalls) <= Len(configurations)
          /\ \A j \in 1..Cardinality(DeleteCalls) :
               calls[j + 1] = Call("delete", configurations[j]._id, j)
          /\ (pc = "done" /\ ~ListFailed) =>
               Cardinality(DeleteCalls) = Len(configurations))
  /\ [][(op \in {"deleteAll", "deleteByType"} /\ trace' # trace) =>
          \A id \in Ids \ ListedIds : store'[id] = store[id]]_vars

\* a deleteAll has ended while the store holds an entity that was not there
\* before the batch and is not in its listing of two entities
C30_Witness ==
  /\ op = "deleteAll" /\ pc = "done" /\ ~ListFailed
  /\ Len(configurations) = 2
  /\ Cardinality(DeleteCalls) = 2
  /\ \E id \in Ids \ ListedIds :
       store[id] # Absent /\ previous.store[id] = Absent

\* the store calls an operation may issue: one per entry of its working
\* set, and its listing call when it has one
CallBudget == Len(WorkingSet) + (IF op = "import" THEN 0 ELSE 1)

\* C31: when every store call settles, each of importConfigEntities,
\* exportConfigEntities, deleteConfigEntities and
\* deleteConfigEntitiesByType completes, returning or failing, and it issues
\* no more store calls than its working set has entries plus its listing
\* call, none of them twice for one entry.
C31_BulkOperationsTerminate ==
  /\ [](op # "none" =>
          /\ Len(calls) <= CallBudget
          /\ \A a, b \in 1..Len(ItemCalls) :
               ItemCalls[a].idx = ItemCalls[b].idx => a = b
          /\ pc = "done" => outcome \in {"returned", "threw"})
  /\ (op # "none") ~> (pc = "done")

\* an export of three entities has completed after its listing and three
\* refetches, two of which failed
C31_Witness ==
  /\ op = "export" /\ pc = "done" /\ outcome = "returned"
  /\ Len(calls) = CallBudget
  /\ Len(configurations) = Len(IdOrder)
  /\ Len(FailedItems) = 2

\* C32: when the store delete of deleteConfigEntity fails, the caller gets
\* an error with the message 'Error deleting config entity <id>' that wraps
\* the cause.
C32_DeleteFailureWrapped ==
  (op = "delete" /\ pc = "done" /\ FailedItems # <<>>) =>
    /\ outcome = "threw"
    /\ thrown = DeleteError(entity._id, FailedItems[1].err)

====
